---- MODULE Spec2Model ----
(***************************************************************************)
(* A model of archsim, a tick-driven interconnect simulator.               *)
(*                                                                         *)
(* These specifications share this module, each over its own variables:    *)
(*   Spec      the simulation kernel: Simulator.tick / run over a topology *)
(*             of two ComputeUnits, a pass-through Resource and a Memory   *)
(*             joined by four Links, with the BufferPool's time update;    *)
(*   SpecSem   one SemaphoreStation fed with sem_signal / sem_wait;        *)
(*   SpecPool  the BufferPool's ownership API called in any order;         *)
(*   SpecBuf   one DataBuffer at the head of an OutputQueue;               *)
(*   SpecArb   one Arbiter of two input ports in front of a Channel;       *)
(*   SpecMem   one Memory with buffer requests, triggers and backpressure; *)
(*   SpecRoute Simulator.deliver and a Link to a port of the destination;  *)
(*   SpecDict  DataBuffer.to_dict / from_dict;                             *)
(*   SpecBus   the run of examples/simple_bus.py;                          *)
(*   SpecTrig  the triggers of BufferPool.set_state;                       *)
(*   SpecXfer  scheduled transfers and their arrival in BufferPool.tick;   *)
(*   SpecOq    an OutputQueue stepped against a Channel (FairSpecOq: the   *)
(*             queue is stepped again and again);                          *)
(*   SpecBs    a Bus of two inputs (FairSpecBs: the bus goes on ticking);  *)
(*   SpecRw    a Bus, a ReadBus and a WriteBus in one simulator;           *)
(*   SpecPe    a ProcessingElement in pro mode (FairSpecPe: ticks without  *)
(*             backpressure recur).                                        *)
(***************************************************************************)
EXTENDS Integers, Sequences, FiniteSets, TLC

VARIABLES
    \* ---- simulation kernel -------------------------------------------
    pc,             \* position inside Simulator.run / Simulator.tick
    ticks,          \* Simulator.ticks
    metrics,        \* Metrics: ticks, messages_delivered, bytes_transferred
    cfg,            \* constructor parameters of the topology, fixed in Init
    inbox,          \* Resource.inbox, one in-port per resource
    outbox,         \* Resource.outbox, one out-port per resource
    pipeline,       \* Link.pipeline, per link a sequence of stages
    linkacct,       \* Link.bytes_moved_this_tick, utilization_sum, ticks
    cpu,            \* ComputeUnit._issued, _received, _last_issue_tick, PE._ticks
    mem,            \* Memory._inflight and occupancy fields
    nextId,         \* next fresh Message id
    tickNo,         \* history: index of the tick being run (completed tick() calls)
    log,            \* history: the phases run so far in the current tick
    linkHist,       \* history: per link, what it pulled and delivered, and when
    seenHist,       \* history: every message a tick hook took from its in-queue
    quietAt,        \* history: <<Frame>> as it was at the first end of a tick at
                    \* which is_quiescent() held, <<>> before
    \* ---- buffer pool ---------------------------------------------------
    pool_buffers,   \* BufferPool._buffers: id -> [size, state]
    pool_owner_of,  \* BufferPool._owner_of: id -> owner
    pool_owned_by,  \* BufferPool._owned_by: owner -> set of ids
    pool_expected,  \* BufferPool._expected_arrival: id -> tick
    pool_meta,      \* BufferPool._transfer_meta: destination id -> record
    pool_deleted,   \* history: ids that delete() removed from the registry
    \* ---- semaphore station ---------------------------------------------
    sem_values,     \* SemaphoreStation.values
    sem_waiters,    \* SemaphoreStation.waiters
    sem_in,         \* the station's inbox["in"]
    sem_out,        \* the station's outbox["out"], never drained here
    sem_sent,       \* number of requests delivered to the station so far
    \* ---- data buffer / output queue -------------------------------------
    buf,            \* the DataBuffer: size, bytes_received, bytes_sent
    oq_items,       \* OutputQueue.items
    oq_scheduled,   \* OutputQueue._scheduled
    oq_dest_map,    \* OutputQueue._dest_map
    buf_calls,      \* number of calls made on the buffer so far
    \* ---- arbiter and its downstream channel ----------------------------
    arb,            \* Arbiter: inbox, outbox["out"] and its private fields
    chan,           \* the downstream Channel, or the record of no channel
    arb_ticks,      \* Simulator.ticks of the arbiter's simulator
    arb_phase,      \* position inside the tick: "tick" before Arbiter.tick
    arb_hist,       \* history: the buffer_transfer admissions of the blocking branch
    arb_sent,       \* number of messages delivered to the arbiter so far
    \* ---- memory with buffers --------------------------------------------
    mst,            \* Memory: inbox["in"], outbox["out"], _inflight, occupancy
    mcfg,           \* Memory's constructor parameters, fixed in Init
    mchan_bp,       \* _backpressured of each registered inbound channel
    mst_ticks,      \* Simulator.ticks of the memory's simulator
    mst_phase,      \* position inside the tick: "tick" before Memory.tick
    mst_sent,       \* number of requests delivered to the memory so far
    mst_triggers,   \* DataBuffer.triggers of each buffer object
    \* ---- calls of the pool's API ----------------------------------------
    pool_call,      \* history: the last call made on the pool and its outcome
    \* ---- routing to a port by name --------------------------------------
    rt,             \* a simulator of two resources: inbox, outbox, ticks, next id
    rt_cfg,         \* the dst_port of the link built by hand, fixed in Init
    rt_misrouted,   \* history: ids of the messages delivered to a port that the
                    \* destination was not built with
    \* ---- DataBuffer.to_dict / from_dict ---------------------------------
    db,             \* the DataBuffer b, fixed in Init
    db_dict,        \* b.to_dict(), once made
    db_back,        \* DataBuffer.from_dict(b.to_dict()), once made
    db_phase,       \* "new", then "dict" after to_dict, then "back" after from_dict
    \* ---- the simple-read topology ---------------------------------------
    sb,             \* the simulator of examples/simple_bus.py: queues, link
                    \* pipelines, ComputeUnit, ReadBus and Memory fields
    \* ---- triggers of set_state ------------------------------------------
    tg,             \* BufferPool._triggers, the buffers' own triggers, the
                    \* in-queues of the topology's resources, and as history
                    \* the last set_state call and the number of calls
    \* ---- scheduled transfers and their arrival ---------------------------
    xf,             \* sim.ticks, the phase of the tick, the input queues of
                    \* the PE, the transfers under way, and as history the
                    \* arrivals and deallocations BufferPool.tick has made
    \* ---- an OutputQueue stepped against a Channel -------------------------
    oq,             \* the queue, its buffers' byte counters, the channel,
                    \* sim.ticks, and as history the steps of each transfer
    \* ---- Bus, ReadBus and WriteBus ----------------------------------------
    bs,             \* a Bus: its in-queues, what its last tick sent, _last_idx
    rw,             \* a Bus, a ReadBus and a WriteBus of one simulator: queues,
                    \* pipelines, and as history what each sent and when
    \* ---- ProcessingElement in pro mode ------------------------------------
    pe              \* the PE's state, queues and slots, with the pool

kvars == <<pc, ticks, metrics, cfg, inbox, outbox, pipeline, linkacct, cpu, mem,
           nextId, tickNo, log, linkHist, seenHist, quietAt>>
pvars == <<pool_buffers, pool_owner_of, pool_owned_by, pool_expected, pool_meta,
           pool_deleted>>
svars == <<sem_values, sem_waiters, sem_in, sem_out, sem_sent>>
bvars == <<buf, oq_items, oq_scheduled, oq_dest_map, buf_calls>>
avars == <<arb, chan, arb_ticks, arb_phase, arb_hist, arb_sent>>
mvars == <<mst, mcfg, mchan_bp, mst_ticks, mst_phase, mst_sent, mst_triggers>>
cvars == <<pool_call>>
rvars == <<rt, rt_cfg, rt_misrouted>>
dvars == <<db, db_dict, db_back, db_phase>>
busvars == <<sb>>
tvars == <<tg>>
fvars == <<xf>>
nvars == <<oq, bs, rw, pe>>
ovars == <<cvars, rvars, dvars, busvars, tvars, fvars, nvars>>
xvars == <<avars, mvars, ovars>>
vars == <<kvars, pvars, svars, bvars, xvars>>

(***************************************************************************)
(* Bounds of the model.                                                    *)
(***************************************************************************)
MaxTicks == 7        \* max_ticks handed to Simulator.run
MaxSize == 2         \* largest request_size of a ComputeUnit
MaxBw == 3           \* largest bandwidth of the shared link
MaxLat == 2          \* largest latency of a link
MaxMemLat == 4       \* largest Memory.latency
MaxRequests == 3     \* largest total_requests of the ComputeUnits
MaxArrival == 2      \* latest expected arrival recorded before the run
MaxSemMsgs == 4      \* requests delivered to the semaphore station
MaxBufs == 2         \* DataBuffer objects handed to the pool
MaxBufSize == 3      \* size of the DataBuffer of SpecBuf, and of an amount
MaxBufCalls == 4     \* calls made on the DataBuffer and its OutputQueue
MaxChanBw == 2       \* bandwidth of the channel handed to OutputQueue.step
MaxQueued == 2       \* transfers waiting in the OutputQueue
MaxArbTicks == 3     \* ticks of the arbiter's simulator
MaxArbMsgs == 3      \* messages the generators send to the arbiter
MaxArbSize == 2      \* size of the large buffers the generators send (the small are 1)
MaxArbLat == 1       \* latency of the downstream channel when it is not 0
MaxMemTicks == 2     \* ticks of the memory's simulator
MaxMemMsgs == 2      \* requests delivered to the memory
MaxLimit == 1        \* largest size_limit of the memory
MaxRate == 1         \* largest fill_rate and drain_rate, in absolute value
MaxRouteMsgs == 3    \* messages handed to Simulator.deliver from outside
MaxRouteTicks == 4   \* ticks of the routing simulator
MaxDictSize == 2     \* DataBuffer.size of the buffer that is serialized
MaxDictBytes == 2    \* its bytes_received and bytes_sent, from -1 up
MaxOqBufs == 2       \* transfers enqueued on the stepped OutputQueue
MaxOqSize == 3       \* largest size of a buffer on that queue
MaxOqTicks == 4      \* ticks counted while that queue is stepped
MaxBsBw == 3         \* bandwidth of the Bus, bytes per tick
MaxBsSize == 3       \* size of a message sent to the Bus
MaxBsQueue == 2      \* messages waiting on one input of the Bus
MaxRwBw == 2         \* bandwidth of the Bus, ReadBus and WriteBus ticked together
MaxRwLat == 2        \* latency of their request and response pipelines
MaxRwSize == 2       \* size of a message sent to one of them
MaxRwMsgs == 3       \* messages sent to them
MaxRwTicks == 4      \* ticks of their simulator
MaxPeSize == 5       \* size of the large items a PE is given (the small are 2)
MaxPeRate == 2       \* rate a command of the PE carries, when it carries one
MaxPeItems == 4      \* items delivered to the input queues of the PE
MaxPeQueue == 2      \* items waiting in one input queue of the PE
MaxPeCmds == 2       \* commands delivered to the PE
MaxXferTicks == 4    \* ticks of the simulator in the transfer specification
MaxXferBufs == 3     \* buffers the pool registers in the transfer specification
MaxXferLat == 2      \* largest distance of an expected arrival from now
MaxTrigs == 1        \* triggers registered on the pool for one buffer
MaxTrigCalls == 1    \* set_state calls
MaxMstLat == 1       \* largest latency of the memory

(***************************************************************************)
(* Program constants.                                                      *)
(***************************************************************************)
NeverIssued == -1000000000      \* ComputeUnit._last_issue_tick at construction
DefaultSizeLimit == 1000000     \* Memory size_limit default
DefaultFillRate == 1000000      \* Memory fill_rate default
DefaultDrainRate == 1000000     \* Memory drain_rate default
MaxIssuePerTick == 1            \* Memory max_issue_per_tick default

None == "None"

Min(a, b) == IF a <= b THEN a ELSE b
Max(a, b) == IF a >= b THEN a ELSE b

RECURSIVE SumSize(_)
SumSize(q) == IF q = <<>> THEN 0 ELSE Head(q).size + SumSize(Tail(q))

(***************************************************************************)
(* The topology: resources and links in insertion order.                   *)
(***************************************************************************)
ResourceOrder == <<"cpuA", "cpuB", "relay", "memory">>
Resources == {ResourceOrder[i] : i \in 1..Len(ResourceOrder)}
Cpus == {"cpuA", "cpuB"}
\* Resources whose class defines finalize_tick (ProcessingElement does).
HasFinalize(r) == r \in Cpus

LinkEnds == << [src |-> "cpuA",   dst |-> "relay"],
               [src |-> "cpuB",   dst |-> "relay"],
               [src |-> "relay",  dst |-> "memory"],
               [src |-> "memory", dst |-> "cpuA"] >>
Links == 1..Len(LinkEnds)

(***************************************************************************)
(* Dictionaries: functions whose domain grows and shrinks.                 *)
(***************************************************************************)
EmptyMap == [x \in {} |-> 0]
Get(f, k, default) == IF k \in DOMAIN f THEN f[k] ELSE default
Put(f, k, v) == [x \in (DOMAIN f) \cup {k} |-> IF x = k THEN v ELSE f[x]]
Drop(f, k) == [x \in (DOMAIN f) \ {k} |-> f[x]]

(***************************************************************************)
(* Message (core/message.py).  pulledAt and deliveredAt are history: the   *)
(* tick in which a link last pulled, resp. delivered, the message.         *)
(***************************************************************************)
Message(id, src, dst, size, kind, created_at, reply_to) ==
    [id |-> id, src |-> src, dst |-> dst, size |-> size, kind |-> kind,
     created_at |-> created_at, reply_to |-> reply_to,
     pulledAt |-> -1, deliveredAt |-> -1]

(***************************************************************************)
(* Simulator.is_quiescent: every in/out queue and every link stage empty.  *)
(***************************************************************************)
is_quiescent ==
    /\ \A r \in Resources : inbox[r] = <<>> /\ outbox[r] = <<>>
    /\ \A l \in Links : \A i \in 1..Len(pipeline[l]) : pipeline[l][i] = <<>>

\* What quiescence is claimed to freeze: the queues, the link pipelines, the
\* Memory's inflight responses and the pool.
Frame == [inbox |-> inbox, outbox |-> outbox, pipeline |-> pipeline,
          inflight |-> mem.inflight, buffers |-> pool_buffers,
          owner_of |-> pool_owner_of, owned_by |-> pool_owned_by,
          expected |-> pool_expected]

(***************************************************************************)
(* The order of the phases of Simulator.tick, as a successor on positions. *)
(* A position is [phase, i]; i indexes the resource or link of the step.   *)
(***************************************************************************)
At(phase, i) == [phase |-> phase, i |-> i]

NextPcLinksFirst(p) ==
    CASE p.phase = "links" ->
            IF p.i < Len(LinkEnds) THEN At("links", p.i + 1) ELSE At("resources", 1)
      [] p.phase = "resources" ->
            IF p.i < Len(ResourceOrder) THEN At("resources", p.i + 1) ELSE At("count", 0)
      [] p.phase = "count" -> At("pool", 0)
      [] p.phase = "pool" -> At("finalize", 1)
      [] p.phase = "finalize" ->
            IF p.i < Len(ResourceOrder) THEN At("finalize", p.i + 1) ELSE At("trace", 0)
      [] p.phase = "trace" -> At("run", 0)
      [] OTHER -> At("links", 1)

NextPcPoolBeforeCount(p) ==
    CASE p.phase = "resources" ->
            IF p.i < Len(ResourceOrder) THEN At("resources", p.i + 1) ELSE At("links", 1)
      [] p.phase = "links" ->
            IF p.i < Len(LinkEnds) THEN At("links", p.i + 1) ELSE At("pool", 0)
      [] p.phase = "pool" -> At("count", 0)
      [] p.phase = "count" -> At("finalize", 1)
      [] p.phase = "finalize" ->
            IF p.i < Len(ResourceOrder) THEN At("finalize", p.i + 1) ELSE At("trace", 0)
      [] p.phase = "trace" -> At("run", 0)
      [] OTHER -> At("resources", 1)

NextPc(p) ==
    CASE p.phase = "resources" ->
            IF p.i < Len(ResourceOrder) THEN At("resources", p.i + 1) ELSE At("links", 1)
      [] p.phase = "links" ->
            IF p.i < Len(LinkEnds) THEN At("links", p.i + 1) ELSE At("count", 0)
      [] p.phase = "count" -> At("pool", 0)
      [] p.phase = "pool" -> At("finalize", 1)
      [] p.phase = "finalize" ->
            IF p.i < Len(ResourceOrder) THEN At("finalize", p.i + 1) ELSE At("trace", 0)
      [] p.phase = "trace" -> At("run", 0)
      [] OTHER -> At("resources", 1)


(***************************************************************************)
(* BufferPool (core/buffer_pool.py).  The operations are functions on the  *)
(* pool record P; an action stores the resulting record in the pool_*      *)
(* variables.  _expected_arrival is kept as a sequence of [id, tick] in    *)
(* insertion order, the order in which BufferPool.tick walks the dict.     *)
(***************************************************************************)
Pool == [buffers |-> pool_buffers, owner_of |-> pool_owner_of,
         owned_by |-> pool_owned_by, expected |-> pool_expected,
         meta |-> pool_meta, deleted |-> pool_deleted]

EmptyPool == [buffers |-> EmptyMap, owner_of |-> EmptyMap, owned_by |-> EmptyMap,
              expected |-> <<>>, meta |-> EmptyMap, deleted |-> {}]

StorePool(P) ==
    /\ pool_buffers' = P.buffers
    /\ pool_owner_of' = P.owner_of
    /\ pool_owned_by' = P.owned_by
    /\ pool_expected' = P.expected
    /\ pool_meta' = P.meta
    /\ pool_deleted' = P.deleted

\* DataBuffer(size=...) as the pool holds it (core/databuffer.py).
DataBuffer(size, owner_memory, role, destination_pe, destination_queue) ==
    [size |-> size, state |-> "allocated", owner_memory |-> owner_memory,
     role |-> role, destination_pe |-> destination_pe,
     destination_queue |-> destination_queue]

\* dict.get(id) on _owner_of: None when the id has no entry.
pool_owner(P, id) == Get(P.owner_of, id, None)

pool_set_owner(P, id, owner) ==
    LET prev == Get(P.owner_of, id, None)
        ob1 == IF prev \in DOMAIN P.owned_by
               THEN [P.owned_by EXCEPT ![prev] = @ \ {id}]
               ELSE P.owned_by
    IN  IF prev = owner /\ id \in DOMAIN P.buffers
        THEN P
        ELSE [P EXCEPT !.owner_of = Put(@, id, owner),
                       !.owned_by = Put(ob1, owner, Get(ob1, owner, {}) \cup {id})]

pool_register(P, id, buffer, owner) ==
    LET P1 == IF id \notin DOMAIN P.buffers
              THEN [P EXCEPT !.buffers = Put(@, id, buffer), !.deleted = @ \ {id}]
              ELSE P
        P2 == pool_set_owner(P1, id, owner)
    IN  IF owner # None
        THEN [P2 EXCEPT !.buffers[id].owner_memory = owner]
        ELSE P2

\* transfer with the check of the id left out.
pool_transfer_unchecked(P, id) == TRUE

pool_transfer_ok(P, id) == id \in DOMAIN P.buffers

pool_transfer(P, id, new_owner) ==
    IF pool_transfer_ok(P, id) THEN pool_set_owner(P, id, new_owner) ELSE P

pool_delete(P, id) ==
    IF id \notin DOMAIN P.buffers
    THEN P
    ELSE LET owner == Get(P.owner_of, id, None)
         IN  [P EXCEPT !.buffers = Drop(@, id),
                       !.owner_of = Drop(@, id),
                       !.owned_by = IF owner \in DOMAIN @
                                    THEN [@ EXCEPT ![owner] = @ \ {id}]
                                    ELSE @,
                       !.expected = SelectSeq(@, LAMBDA e : e.id # id),
                       !.meta = Drop(@, id),
                       !.deleted = @ \cup {id}]

RECURSIVE SumSizes(_, _)
SumSizes(buffers, ids) ==
    IF ids = {} THEN 0
    ELSE LET b == CHOOSE x \in ids : TRUE
         IN  (IF b \in DOMAIN buffers THEN buffers[b].size ELSE 0)
             + SumSizes(buffers, ids \ {b})

pool_bytes_owned(P, owner) == SumSizes(P.buffers, Get(P.owned_by, owner, {}))

pool_total_bytes(P) == SumSizes(P.buffers, DOMAIN P.buffers)

\* set_state with no trigger attached to the buffer or registered for it.
pool_set_state(P, id, state) ==
    IF id \notin DOMAIN P.buffers THEN P
    ELSE [P EXCEPT !.buffers[id].state = state]

pool_record_expected_arrival(P, id, tick) ==
    IF \E k \in 1..Len(P.expected) : P.expected[k].id = id
    THEN [P EXCEPT !.expected =
            [k \in 1..Len(@) |-> IF @[k].id = id THEN [id |-> id, tick |-> tick] ELSE @[k]]]
    ELSE [P EXCEPT !.expected = Append(@, [id |-> id, tick |-> tick])]

\* One iteration of the loop of BufferPool.tick, for the due buffer bid.
pool_arrive(P, bid) ==
    LET P1 == pool_set_state(P, bid, "arrived")
        tracked == bid \in DOMAIN P.meta /\ P.meta[bid].source_id \in DOMAIN P1.buffers
        P2 == IF tracked
              THEN pool_delete(pool_set_state(P1, P.meta[bid].source_id, "deallocated"),
                               P.meta[bid].source_id)
              ELSE P1
    IN  [P2 EXCEPT !.expected = SelectSeq(@, LAMBDA e : e.id # bid)]

RECURSIVE pool_arrive_all(_, _)
pool_arrive_all(P, due) ==
    IF due = <<>> THEN P ELSE pool_arrive_all(pool_arrive(P, Head(due)), Tail(due))

pool_due(P, now) == SelectSeq(P.expected, LAMBDA e : e.tick <= now)

pool_tick(P, now) ==
    LET due == pool_due(P, now)
    IN  pool_arrive_all(P, [k \in 1..Len(due) |-> due[k].id])


(***************************************************************************)
(* Link (core/link.py).                                                    *)
(***************************************************************************)
\* The number of pipeline stages of a link of the given latency.
NumStagesOffByOne(latency) == latency + 1

NumStages(latency) == Max(1, latency)

\* How many messages the pull loop takes from the head of outq: it stops at
\* the first message whose size exceeds what is left of the capacity.
PullCountUnbounded(outq, capacity) == Len(outq)

\* The pull loop letting the head pass whatever its size.
PullCountHeadPasses(outq, capacity) == IF outq = <<>> THEN 0 ELSE 1

RECURSIVE PullCount(_, _)
PullCount(outq, capacity) ==
    IF outq = <<>> \/ capacity < Head(outq).size
    THEN 0
    ELSE 1 + PullCount(Tail(outq), capacity - Head(outq).size)

StampPulled(q, t) == [k \in 1..Len(q) |-> [q[k] EXCEPT !.pulledAt = t]]
StampDelivered(q, t) == [k \in 1..Len(q) |-> [q[k] EXCEPT !.deliveredAt = t]]
Events(q, t) == [k \in 1..Len(q) |-> [id |-> q[k].id, tick |-> t, pulledAt |-> q[k].pulledAt]]

\* Link.tick of link l.
LinkTick(l) ==
    LET e == LinkEnds[l]
        outq == outbox[e.src]
        n == PullCount(outq, cfg.bandwidth[l])
        pulled == StampPulled(SubSeq(outq, 1, n), tickNo)
        stages == pipeline[l]
        delivered == IF cfg.latency[l] >= 1
                     THEN StampDelivered(stages[Len(stages)], tickNo)
                     ELSE StampDelivered(pulled, tickNo)
        moved == SumSize(delivered)
    IN  /\ outbox' = [outbox EXCEPT ![e.src] = SubSeq(outq, n + 1, Len(outq))]
        /\ inbox' = [inbox EXCEPT ![e.dst] = @ \o delivered]
        /\ pipeline' = [pipeline EXCEPT ![l] =
                IF cfg.latency[l] >= 1
                THEN [i \in 1..Len(stages) |-> IF i = 1 THEN pulled ELSE stages[i - 1]]
                ELSE stages]
        /\ metrics' = [metrics EXCEPT
                !.messages_delivered = @ + Len(delivered),
                !.bytes_transferred = @ + moved]
        /\ linkacct' = [linkacct EXCEPT ![l] =
                [ticks |-> @.ticks + 1,
                 bytes_moved_this_tick |-> moved,
                 utilization_sum |-> @.utilization_sum + moved]]
        /\ linkHist' = [linkHist EXCEPT ![l] =
                [pulled |-> @.pulled \o Events(pulled, tickNo),
                 delivered |-> @.delivered \o Events(delivered, tickNo),
                 pulledNow |-> SumSize(pulled)]]

(***************************************************************************)
(* The tick hooks of the resources.                                        *)
(***************************************************************************)
\* What a tick hook records of the messages it takes from its in-queue.
Seen(r, q) == {[id |-> q[k].id, res |-> r, deliveredAt |-> q[k].deliveredAt,
                seenAt |-> tickNo] : k \in 1..Len(q)}

IssueInterval == 1

\* ComputeUnit.tick with produce_buffers = False (resources/compute.py).
ComputeTick(c) ==
    LET inq == inbox[c]
        resps == SelectSeq(inq, LAMBDA m : m.kind = "resp")
        issue == /\ cpu[c].issued < cfg.total_requests
                 /\ ticks - cpu[c].last_issue_tick >= Max(1, IssueInterval)
        req == Message(nextId, c, "memory", cfg.request_size[c], "read", ticks, None)
    IN  /\ inbox' = [inbox EXCEPT ![c] = <<>>]
        /\ outbox' = [outbox EXCEPT ![c] = IF issue THEN Append(@, req) ELSE @]
        /\ cpu' = [cpu EXCEPT ![c].received = @ + Len(resps),
                              ![c].issued = IF issue THEN @ + 1 ELSE @,
                              ![c].last_issue_tick = IF issue THEN ticks ELSE @]
        /\ nextId' = IF issue THEN nextId + 1 ELSE nextId
        /\ seenHist' = seenHist \cup Seen(c, inq)
        /\ UNCHANGED mem

\* Resource.tick of the pass-through resource, whose port is both in and out
\* (core/resource.py): every message of the in-queue goes to the out-queue.
RelayTick(r) ==
    /\ inbox' = [inbox EXCEPT ![r] = <<>>]
    /\ outbox' = [outbox EXCEPT ![r] = @ \o inbox[r]]
    /\ seenHist' = seenHist \cup Seen(r, inbox[r])
    /\ UNCHANGED <<cpu, mem, nextId>>

\* How many entries at the head of the inflight list are ready at tick now.
RECURSIVE ReadyCount(_, _)
ReadyCount(inflight, now) ==
    IF inflight = <<>> \/ Head(inflight).ready_tick > now
    THEN 0
    ELSE 1 + ReadyCount(Tail(inflight), now)

\* Memory.tick for read/write/data requests (resources/memory.py).
MemoryTick(r) ==
    LET inq == inbox[r]
        n == Min(Len(inq), MaxIssuePerTick)
        taken == SubSeq(inq, 1, n)
        bytes_in == SumSize(taken)
        resp(k) == [ready_tick |-> ticks + Max(0, cfg.mem_latency),
                    msg |-> Message(nextId + k - 1, r, taken[k].src, taken[k].size,
                                    "resp", ticks, taken[k].id)]
        inflight1 == mem.inflight \o [k \in 1..n |-> resp(k)]
        nready == ReadyCount(inflight1, ticks)
        emitted == [k \in 1..nready |-> inflight1[k].msg]
        bytes_out == SumSize(emitted)
        fill == Min(bytes_in, DefaultFillRate)
        current1 == Min(DefaultSizeLimit, mem.bytes_current + fill)
        drain == Min(Min(bytes_out, DefaultDrainRate), current1)
        current2 == Max(0, current1 - drain)
    IN  /\ inbox' = [inbox EXCEPT ![r] = SubSeq(inq, n + 1, Len(inq))]
        /\ outbox' = [outbox EXCEPT ![r] = @ \o emitted]
        /\ mem' = [inflight |-> SubSeq(inflight1, nready + 1, Len(inflight1)),
                   bytes_current |-> current2,
                   bytes_in_tick |-> bytes_in,
                   bytes_out_tick |-> bytes_out,
                   backpressured |-> current2 >= DefaultSizeLimit]
        /\ nextId' = nextId + n
        /\ seenHist' = seenHist \cup Seen(r, taken)
        /\ UNCHANGED cpu

(***************************************************************************)
(* Simulator.run and Simulator.tick (core/simulator.py), one action per    *)
(* call made by the loops of tick.                                         *)
(***************************************************************************)
Logged(event) == log' = Append(log, event)

\* run(): the next iteration of the loop starts a tick.
RunLoop ==
    /\ pc.phase = "run"
    /\ tickNo < MaxTicks
    /\ ~(cfg.until_quiescent /\ tickNo > 0 /\ is_quiescent)
    /\ pc' = NextPc(pc)
    /\ log' = <<>>
    /\ UNCHANGED <<ticks, metrics, cfg, inbox, outbox, pipeline, linkacct, cpu, mem,
                   nextId, tickNo, linkHist, seenHist, quietAt>>
    /\ UNCHANGED <<pvars, svars, bvars, xvars>>

TickCompute ==
    /\ pc.phase = "resources"
    /\ ResourceOrder[pc.i] \in Cpus
    /\ ComputeTick(ResourceOrder[pc.i])
    /\ Logged([phase |-> "resources", i |-> pc.i, ticks |-> ticks])
    /\ pc' = NextPc(pc)
    /\ UNCHANGED <<ticks, metrics, cfg, pipeline, linkacct, tickNo, linkHist, quietAt>>
    /\ UNCHANGED <<pvars, svars, bvars, xvars>>

TickRelay ==
    /\ pc.phase = "resources"
    /\ ResourceOrder[pc.i] = "relay"
    /\ RelayTick("relay")
    /\ Logged([phase |-> "resources", i |-> pc.i, ticks |-> ticks])
    /\ pc' = NextPc(pc)
    /\ UNCHANGED <<ticks, metrics, cfg, pipeline, linkacct, tickNo, linkHist, quietAt>>
    /\ UNCHANGED <<pvars, svars, bvars, xvars>>

TickMemory ==
    /\ pc.phase = "resources"
    /\ ResourceOrder[pc.i] = "memory"
    /\ MemoryTick("memory")
    /\ Logged([phase |-> "resources", i |-> pc.i, ticks |-> ticks])
    /\ pc' = NextPc(pc)
    /\ UNCHANGED <<ticks, metrics, cfg, pipeline, linkacct, tickNo, linkHist, quietAt>>
    /\ UNCHANGED <<pvars, svars, bvars, xvars>>

TickLink ==
    /\ pc.phase = "links"
    /\ LinkTick(pc.i)
    /\ Logged([phase |-> "links", i |-> pc.i, ticks |-> ticks])
    /\ pc' = NextPc(pc)
    /\ UNCHANGED <<ticks, cfg, cpu, mem, nextId, tickNo, seenHist, quietAt>>
    /\ UNCHANGED <<pvars, svars, bvars, xvars>>

CountTick ==
    /\ pc.phase = "count"
    /\ ticks' = ticks + 1
    /\ metrics' = [metrics EXCEPT !.ticks = ticks + 1]
    /\ Logged([phase |-> "count", i |-> 0, ticks |-> ticks + 1])
    /\ pc' = NextPc(pc)
    /\ UNCHANGED <<cfg, inbox, outbox, pipeline, linkacct, cpu, mem, nextId, tickNo,
                   linkHist, seenHist, quietAt>>
    /\ UNCHANGED <<pvars, svars, bvars, xvars>>

\* buffer_pool.tick(sim).  No transfer was scheduled in this topology, so no
\* arrival names a destination PE and no queue changes.
PoolTick ==
    /\ pc.phase = "pool"
    /\ StorePool(pool_tick(Pool, ticks))
    /\ Logged([phase |-> "pool", i |-> 0, ticks |-> ticks])
    /\ pc' = NextPc(pc)
    /\ UNCHANGED <<ticks, metrics, cfg, inbox, outbox, pipeline, linkacct, cpu, mem,
                   nextId, tickNo, linkHist, seenHist, quietAt>>
    /\ UNCHANGED <<svars, bvars, xvars>>

\* One iteration of the finalize loop: ProcessingElement.finalize_tick folds
\* a tick (ComputeUnit.tick never sets _busy_this_tick); Resource and Memory
\* have no such hook.
FinalizeTick ==
    /\ pc.phase = "finalize"
    /\ IF HasFinalize(ResourceOrder[pc.i])
       THEN /\ cpu' = [cpu EXCEPT ![ResourceOrder[pc.i]].pe_ticks = @ + 1]
            /\ Logged([phase |-> "finalize", i |-> pc.i, ticks |-> ticks])
       ELSE UNCHANGED <<cpu, log>>
    /\ pc' = NextPc(pc)
    /\ UNCHANGED <<ticks, metrics, cfg, inbox, outbox, pipeline, linkacct, mem,
                   nextId, tickNo, linkHist, seenHist, quietAt>>
    /\ UNCHANGED <<pvars, svars, bvars, xvars>>

\* tracer.on_tick(sim), when a tracer is attached; tick() returns.
TraceTick ==
    /\ pc.phase = "trace"
    /\ IF cfg.tracer
       THEN Logged([phase |-> "trace", i |-> 0, ticks |-> ticks])
       ELSE UNCHANGED log
    /\ tickNo' = tickNo + 1
    /\ quietAt' = IF quietAt = <<>> /\ is_quiescent THEN <<Frame>> ELSE quietAt
    /\ pc' = NextPc(pc)
    /\ UNCHANGED <<ticks, metrics, cfg, inbox, outbox, pipeline, linkacct, cpu, mem,
                   nextId, linkHist, seenHist>>
    /\ UNCHANGED <<pvars, svars, bvars, xvars>>


(***************************************************************************)
(* Initial states.  Each specification starts its own part from the states *)
(* its construction allows and holds the other parts at rest.              *)
(***************************************************************************)
RestKernel ==
    /\ pc = At("idle", 0)
    /\ ticks = 0
    /\ metrics = [ticks |-> 0, messages_delivered |-> 0, bytes_transferred |-> 0]
    /\ cfg = [total_requests |-> 1,
              request_size |-> [c \in Cpus |-> 1], bandwidth |-> <<1, 1, 1, 1>>,
              latency |-> <<1, 1, 1, 1>>, mem_latency |-> 0, tracer |-> FALSE,
              until_quiescent |-> FALSE]
    /\ inbox = [r \in Resources |-> <<>>]
    /\ outbox = [r \in Resources |-> <<>>]
    /\ pipeline = [l \in Links |-> <<>>]
    /\ linkacct = [l \in Links |-> [ticks |-> 0, bytes_moved_this_tick |-> 0,
                                    utilization_sum |-> 0]]
    /\ cpu = [c \in Cpus |-> [issued |-> 0, received |-> 0,
                              last_issue_tick |-> NeverIssued, pe_ticks |-> 0]]
    /\ mem = [inflight |-> <<>>, bytes_current |-> 0, bytes_in_tick |-> 0,
              bytes_out_tick |-> 0, backpressured |-> FALSE]
    /\ nextId = 1
    /\ tickNo = 0
    /\ log = <<>>
    /\ linkHist = [l \in Links |-> [pulled |-> <<>>, delivered |-> <<>>, pulledNow |-> 0]]
    /\ seenHist = {}
    /\ quietAt = <<>>

RestPool ==
    /\ pool_buffers = EmptyMap
    /\ pool_owner_of = EmptyMap
    /\ pool_owned_by = EmptyMap
    /\ pool_expected = <<>>
    /\ pool_meta = EmptyMap
    /\ pool_deleted = {}

RestSem ==
    /\ sem_values = <<>>
    /\ sem_waiters = <<>>
    /\ sem_in = <<>>
    /\ sem_out = <<>>
    /\ sem_sent = 0

RestBuf ==
    /\ buf = [id |-> 0, size |-> 1, bytes_received |-> 0, bytes_sent |-> 0]
    /\ oq_items = <<>>
    /\ oq_scheduled = {}
    /\ oq_dest_map = EmptyMap
    /\ buf_calls = 0

\* The channel an arbiter has when set_downstream_channel was never called.
NoDownstream == [present |-> FALSE, transfer_mode |-> "interleaving", bandwidth |-> 1,
                 latency |-> 0, backpressured |-> FALSE, active_count |-> 0]

RestArb ==
    /\ arb = [mode |-> "shared", inbox |-> <<>>, out |-> <<>>, rr_index |-> 0,
              active_port |-> None, available_from |-> 0, inflight_by_port |-> <<>>,
              active |-> <<>>]
    /\ chan = NoDownstream
    /\ arb_ticks = 0
    /\ arb_phase = "idle"
    /\ arb_hist = <<>>
    /\ arb_sent = 0

RestMem ==
    /\ mst = [inbox |-> <<>>, out |-> <<>>, inflight |-> <<>>, bytes_current |-> 0,
              bytes_in_tick |-> 0, bytes_out_tick |-> 0, backpressured |-> FALSE]
    /\ mcfg = [latency |-> 0, max_issue_per_tick |-> 1, size_limit |-> 0,
               fill_rate |-> 0, drain_rate |-> 0]
    /\ mchan_bp = <<>>
    /\ mst_ticks = 0
    /\ mst_phase = "idle"
    /\ mst_sent = 0
    /\ mst_triggers = <<>>

\* No call was made on the pool's API.
NoCall == [op |-> "none", id |-> 0, owner |-> None, raised |-> FALSE]

RestCall == pool_call = NoCall

RestRoute ==
    /\ rt = [inbox |-> EmptyMap, outbox |-> EmptyMap, ticks |-> 0, next_id |-> 1]
    /\ rt_cfg = [dst_port |-> "in"]
    /\ rt_misrouted = {}

RestDict ==
    /\ db = EmptyMap
    /\ db_dict = EmptyMap
    /\ db_back = [raised |-> FALSE, buf |-> EmptyMap]
    /\ db_phase = "idle"

RestBus == sb = EmptyMap

RestTrig == tg = EmptyMap

RestXfer == xf = EmptyMap

RestOq == oq = EmptyMap
RestBs == bs = EmptyMap
RestRw == rw = EmptyMap
RestPe == pe = EmptyMap
RestLate == RestOq /\ RestBs /\ RestRw /\ RestPe

RestNew ==
    /\ RestCall /\ RestRoute /\ RestDict /\ RestBus /\ RestTrig /\ RestXfer
    /\ RestLate

RestOthers == RestArb /\ RestMem /\ RestNew

\* The topology as built: both ComputeUnits have the same total_requests;
\* cpuA issues 1-byte requests over a latency-0 link,
\* cpuB requests of some size over a latency-1 link, both of bandwidth 2, as
\* is the link back from the memory; the shared link relay -> memory and the
\* Memory's latency vary.  A buffer was created for the memory and its
\* arrival recorded before run().
KernelConfigs ==
    { [total_requests |-> n,
       request_size |-> [c \in Cpus |-> IF c = "cpuA" THEN 1 ELSE sB],
       bandwidth |-> <<2, 2, b3, 2>>,
       latency |-> <<0, 1, l3, 1>>, mem_latency |-> ml, tracer |-> tr,
       until_quiescent |-> uq] :
        n \in (MaxRequests - 1)..MaxRequests, sB \in 1..MaxSize,
        b3 \in 1..MaxBw, l3 \in 0..MaxLat,
        ml \in 0..MaxMemLat, tr \in BOOLEAN, uq \in BOOLEAN }

InitKernel ==
    /\ pc = At("run", 0)
    /\ ticks = 0
    /\ metrics = [ticks |-> 0, messages_delivered |-> 0, bytes_transferred |-> 0]
    /\ cfg \in KernelConfigs
    /\ inbox = [r \in Resources |-> <<>>]
    /\ outbox = [r \in Resources |-> <<>>]
    /\ pipeline = [l \in Links |-> [i \in 1..NumStages(cfg.latency[l]) |-> <<>>]]
    /\ linkacct = [l \in Links |-> [ticks |-> 0, bytes_moved_this_tick |-> 0,
                                    utilization_sum |-> 0]]
    /\ cpu = [c \in Cpus |-> [issued |-> 0, received |-> 0,
                              last_issue_tick |-> NeverIssued, pe_ticks |-> 0]]
    /\ mem = [inflight |-> <<>>, bytes_current |-> 0, bytes_in_tick |-> 0,
              bytes_out_tick |-> 0, backpressured |-> FALSE]
    /\ nextId = 1
    /\ tickNo = 0
    /\ log = <<>>
    /\ linkHist = [l \in Links |-> [pulled |-> <<>>, delivered |-> <<>>, pulledNow |-> 0]]
    /\ seenHist = {}
    /\ quietAt = <<>>
    /\ \E E \in 1..MaxArrival :
          LET P == pool_record_expected_arrival(
                     pool_register(EmptyPool, 1,
                                   DataBuffer(1, None, "source", None, None), "memory"),
                     1, E)
          IN  /\ pool_buffers = P.buffers
              /\ pool_owner_of = P.owner_of
              /\ pool_owned_by = P.owned_by
              /\ pool_expected = P.expected
              /\ pool_meta = P.meta
              /\ pool_deleted = P.deleted

Init == InitKernel /\ RestSem /\ RestBuf /\ RestOthers

Next ==
    \/ RunLoop
    \/ TickCompute
    \/ TickRelay
    \/ TickMemory
    \/ TickLink
    \/ CountTick
    \/ PoolTick
    \/ FinalizeTick
    \/ TraceTick

Spec == Init /\ [][Next]_vars


(***************************************************************************)
(* Properties of the simulation kernel (specification Spec).               *)
(***************************************************************************)
\* The calls one Simulator.tick makes, in order, when it starts with the
\* counter at t: the tick hooks, the links, the count, the pool, the
\* finalize hooks of the resources that have one, the tracer if attached.
ExpectedLog(t) ==
    [i \in 1..Len(ResourceOrder) |-> [phase |-> "resources", i |-> i, ticks |-> t]]
    \o [i \in 1..Len(LinkEnds) |-> [phase |-> "links", i |-> i, ticks |-> t]]
    \o << [phase |-> "count", i |-> 0, ticks |-> t + 1],
          [phase |-> "pool", i |-> 0, ticks |-> t + 1] >>
    \o SelectSeq([i \in 1..Len(ResourceOrder) |->
                    [phase |-> "finalize", i |-> i, ticks |-> t + 1]],
                 LAMBDA e : HasFinalize(ResourceOrder[e.i]))
    \o (IF cfg.tracer THEN << [phase |-> "trace", i |-> 0, ticks |-> t + 1] >> ELSE <<>>)

IsPrefix(s, t) == Len(s) <= Len(t) /\ s = SubSeq(t, 1, Len(s))

\* C1: in every tick the calls are made in the order resources (insertion
\* order), links (insertion order), counter increment (copied to
\* metrics.ticks), pool, finalize hooks, tracer: what has run of a tick is
\* always a prefix of that order, a finished tick ran all of it, every link
\* step follows the last resource hook and the pool runs with the counter
\* already incremented.
C1_PhaseOrder ==
    /\ metrics.ticks = ticks
    /\ IF pc.phase = "run"
       THEN tickNo > 0 => log = ExpectedLog(tickNo - 1)
       ELSE IsPrefix(log, ExpectedLog(tickNo))
    /\ \A k \in 1..Len(log) :
          /\ log[k].phase = "links" =>
                \A i \in 1..Len(ResourceOrder) :
                    \E j \in 1..(k - 1) : log[j].phase = "resources" /\ log[j].i = i
          /\ log[k].phase = "pool" =>
                /\ log[k].ticks = tickNo + (IF pc.phase = "run" THEN 0 ELSE 1)
                /\ \E j \in 1..(k - 1) : log[j].phase = "count"

\* A tick has completed with a tracer attached and the pool has fired the
\* recorded arrival.
C1_Witness ==
    /\ pc.phase = "run"
    /\ tickNo >= 2
    /\ cfg.tracer
    /\ Len(log) = Len(ExpectedLog(tickNo - 1))
    /\ pool_expected = <<>>
    /\ pool_buffers[1].state = "arrived"

\* The tick of which the link phase is over.
LinkPhaseDone(t) ==
    \/ t < tickNo
    \/ t = tickNo /\ pc.phase \in {"count", "pool", "finalize", "trace"}

AllLinkEvents ==
    UNION {{[link |-> l, id |-> linkHist[l].pulled[k].id, tick |-> linkHist[l].pulled[k].tick]
                : k \in 1..Len(linkHist[l].pulled)}
           \cup {[link |-> l, id |-> linkHist[l].delivered[k].id,
                  tick |-> linkHist[l].delivered[k].tick]
                : k \in 1..Len(linkHist[l].delivered)} : l \in Links}

\* C2: a message a link appends to an in-queue in the link phase of tick t is
\* taken by the destination's tick hook in a later tick, in tick t+1 by the
\* hooks that drain their in-queue; no hook runs with a message of the
\* current tick's link phase in its in-queue; and no message is moved by two
\* different links in the same tick.
C2_SeenNextTick ==
    /\ \A s \in seenHist :
          s.deliveredAt >= 0 =>
              /\ s.seenAt >= s.deliveredAt + 1
              /\ s.res # "memory" => s.seenAt = s.deliveredAt + 1
    /\ pc.phase = "resources" =>
          \A r \in Resources : \A k \in 1..Len(inbox[r]) : inbox[r][k].deliveredAt < tickNo
    /\ \A e1, e2 \in AllLinkEvents :
          (e1.id = e2.id /\ e1.link # e2.link) => e1.tick # e2.tick

\* A message crossed the latency-0 link cpuA -> relay in one tick and the
\* latency-0 link relay -> memory in the next.
C2_Witness ==
    /\ cfg.latency[1] = 0
    /\ cfg.latency[3] = 0
    /\ \E k1 \in 1..Len(linkHist[1].delivered), k3 \in 1..Len(linkHist[3].delivered) :
          /\ linkHist[1].delivered[k1].id = linkHist[3].delivered[k3].id
          /\ linkHist[3].delivered[k3].tick = linkHist[1].delivered[k1].tick + 1
    /\ \E s \in seenHist : s.res = "memory"

RECURSIVE SumOver(_, _)
SumOver(f, S) ==
    IF S = {} THEN 0
    ELSE LET x == CHOOSE y \in S : TRUE IN f[x] + SumOver(f, S \ {x})

\* C3: in every tick every link moves at most its bandwidth, both in what it
\* delivers (bytes_moved_this_tick) and in what it pulls from the source
\* out-queue, whatever its latency; so the links together move at most the
\* sum of their bandwidths.
C3_LinkBandwidth ==
    /\ \A l \in Links :
          /\ linkacct[l].bytes_moved_this_tick <= cfg.bandwidth[l]
          /\ linkHist[l].pulledNow <= cfg.bandwidth[l]
    /\ SumOver([l \in Links |-> linkacct[l].bytes_moved_this_tick], Links)
          <= SumOver([l \in Links |-> cfg.bandwidth[l]], Links)

\* The shared link moved exactly its bandwidth in one tick and had to leave a
\* message behind in the source out-queue.
C3_Witness ==
    /\ pc.phase = "links" /\ pc.i = 4
    /\ linkacct[3].bytes_moved_this_tick = cfg.bandwidth[3]
    /\ linkHist[3].pulledNow = cfg.bandwidth[3]
    /\ outbox["relay"] # <<>>

EventIds(events) == [k \in 1..Len(events) |-> events[k].id]

\* C4: a link of latency L delivers a message exactly L ticks after it pulled
\* it (in the same step when L = 0): every delivery happens at pull tick + L,
\* every message pulled L or more link phases ago has been delivered, and
\* the deliveries of a link are its pulls, in order, each once.
C4_LinkLatency ==
    \A l \in Links :
        /\ \A k \in 1..Len(linkHist[l].delivered) :
              linkHist[l].delivered[k].tick
                  = linkHist[l].delivered[k].pulledAt + cfg.latency[l]
        /\ IsPrefix(EventIds(linkHist[l].delivered), EventIds(linkHist[l].pulled))
        /\ \A k \in 1..Len(linkHist[l].pulled) :
              LinkPhaseDone(linkHist[l].pulled[k].tick + cfg.latency[l])
                  => k <= Len(linkHist[l].delivered)

\* The latency-2 link has delivered two messages.
C4_Witness ==
    /\ cfg.latency[3] = 2
    /\ Len(linkHist[3].delivered) >= 2
    /\ linkHist[3].delivered[1].tick = linkHist[3].pulled[1].tick + 2

\* C10: once is_quiescent() held at the end of a tick, the queues, the link
\* pipelines, the Memory's inflight list and the pool stay as they were.
C10_QuiescenceIsFinal ==
    quietAt # <<>> => Frame = quietAt[1]

\* run(max_ticks, until_quiescent=True) has left its loop by the break: a
\* tick was made and is_quiescent() returned true after it.
StoppedQuiescent ==
    pc.phase = "run" /\ cfg.until_quiescent /\ tickNo > 0 /\ is_quiescent

\* C11: when run(until_quiescent=True) stops because is_quiescent() returned
\* true, the Memory's inflight-response list and the pool's expected-arrival
\* map are empty as well as the queues and the link pipelines.
C11_QuiescentStopIsEmpty ==
    StoppedQuiescent => mem.inflight = <<>> /\ pool_expected = <<>>

\* The head of the source out-queue of link l is larger than the link's
\* bandwidth.
HeadTooLarge(l) ==
    /\ outbox[LinkEnds[l].src] # <<>>
    /\ Head(outbox[LinkEnds[l].src]).size > cfg.bandwidth[l]

\* C25: while the message at the head of a link's source out-queue is larger
\* than the link's bandwidth, no step removes or alters a message of that
\* queue (the queue only grows at its tail), so the head stays and neither
\* it nor a message behind it is ever pulled, split or dropped; and no
\* message waiting in that queue was pulled by the link.
C25_HeadOfLineStall ==
    [][\A l \in Links :
          HeadTooLarge(l) =>
              /\ IsPrefix(outbox[LinkEnds[l].src], outbox'[LinkEnds[l].src])
              /\ \A k \in 1..Len(outbox'[LinkEnds[l].src]) :
                    outbox'[LinkEnds[l].src][k].id \notin
                        {linkHist'[l].pulled[p].id : p \in 1..Len(linkHist'[l].pulled)}]_vars

\* Several ticks of the shared link after a request too large for it reached
\* the head of the relay's out-queue, it is still there, and a request that
\* the link could carry is queued behind it.
C25_Witness ==
    /\ HeadTooLarge(3)
    /\ Len(outbox["relay"]) >= 3
    /\ linkacct[3].ticks >= 5
    /\ \E k \in 2..Len(outbox["relay"]) : outbox["relay"][k].size <= cfg.bandwidth[3]


(***************************************************************************)
(* SemaphoreStation (resources/semaphore.py).  The handlers are functions  *)
(* on the station record S = [values, waiters, out]; indices are 0-based   *)
(* in the code and stored here at position index + 1.                      *)
(***************************************************************************)
SemCount == 2
Clients == {"c1", "c2"}

Station == [values |-> sem_values, waiters |-> sem_waiters, out |-> sem_out]

sem_validate_index(idx) == 0 <= idx /\ idx < SemCount

Granted(dst, idx, reply_to) ==
    [kind |-> "sem_granted", dst |-> dst, index |-> idx, reply_to |-> reply_to,
     action |-> "grant", value |-> 0]

Ack(dst, idx, action, value, reply_to) ==
    [kind |-> "sem_ack", dst |-> dst, index |-> idx, reply_to |-> reply_to,
     action |-> action, value |-> value]

\* The position of the waiter that _grant_waiter takes: popleft takes the head.
PickWaiterLast(q) == Len(q)

PickWaiter(q) == 1

RemoveAt(q, k) == SubSeq(q, 1, k - 1) \o SubSeq(q, k + 1, Len(q))

\* _grant_waiter that never finds a waiter.
sem_grant_nobody(S, idx) == S

\* _grant_waiter: the station after the call; it granted iff there was a waiter.
sem_grant_waiter(S, idx) ==
    LET q == S.waiters[idx + 1]
        k == PickWaiter(q)
    IN  IF q # <<>>
        THEN [S EXCEPT !.waiters[idx + 1] = RemoveAt(q, k),
                       !.out = Append(@, Granted(q[k].src, idx, q[k].id))]
        ELSE S

\* What _handle_signal adds to values[idx], given whether a waiter was granted.
SignalIncrementAlways(granted) == 1

SignalIncrement(granted) == IF granted THEN 0 ELSE 1

sem_handle_signal(S, idx, req) ==
    LET granted == S.waiters[idx + 1] # <<>>
        S1 == sem_grant_waiter(S, idx)
        S2 == [S1 EXCEPT !.values[idx + 1] = @ + SignalIncrement(granted)]
    IN  [S2 EXCEPT !.out = Append(@, Ack(req.src, idx, "signal", S2.values[idx + 1], req.id))]

\* _handle_wait taking a unit whether or not the counter is positive.
sem_handle_wait_always(S, idx, req) ==
    LET S1 == [S EXCEPT !.values[idx + 1] = @ - 1]
    IN  [S1 EXCEPT !.out = @ \o << Granted(req.src, idx, req.id),
                                   Ack(req.src, idx, "wait_immediate",
                                       S1.values[idx + 1], req.id) >>]

sem_handle_wait(S, idx, req) ==
    IF S.values[idx + 1] > 0
    THEN LET S1 == [S EXCEPT !.values[idx + 1] = @ - 1]
         IN  [S1 EXCEPT !.out = @ \o << Granted(req.src, idx, req.id),
                                        Ack(req.src, idx, "wait_immediate",
                                            S1.values[idx + 1], req.id) >>]
    ELSE [S EXCEPT !.waiters[idx + 1] = Append(@, [src |-> req.src, id |-> req.id]),
                   !.out = Append(@, Ack(req.src, idx, "wait_enqueued",
                                         S.values[idx + 1], req.id))]

\* One iteration of the loop of SemaphoreStation.tick.
sem_handle(S, req) ==
    IF ~sem_validate_index(req.index) THEN S
    ELSE IF req.kind = "sem_signal" THEN sem_handle_signal(S, req.index, req)
    ELSE IF req.kind = "sem_wait" THEN sem_handle_wait(S, req.index, req)
    ELSE S

\* The loop of tick ended by the first request with an invalid index.
RECURSIVE sem_drain_stops(_, _)
sem_drain_stops(S, inq) ==
    IF inq = <<>> \/ ~sem_validate_index(Head(inq).index) THEN S
    ELSE sem_drain_stops(sem_handle(S, Head(inq)), Tail(inq))

RECURSIVE sem_drain(_, _)
sem_drain(S, inq) ==
    IF inq = <<>> THEN S ELSE sem_drain(sem_handle(S, Head(inq)), Tail(inq))

\* Simulator.deliver(station, "in", msg): a client's sem_wait, or a sem_signal
\* of the buffer pool, with an index that may be out of range: too large, or
\* -1, which is also what the station reads when the payload has no index.
SemDeliver ==
    /\ sem_sent < MaxSemMsgs
    /\ \E idx \in {-1} \cup (0..SemCount) :
       \E req \in {[kind |-> "sem_signal", src |-> "buffer_pool",
                    index |-> idx, id |-> sem_sent + 1]}
                  \cup {[kind |-> "sem_wait", src |-> c, index |-> idx,
                         id |-> sem_sent + 1] : c \in Clients} :
          sem_in' = Append(sem_in, req)
    /\ sem_sent' = sem_sent + 1
    /\ UNCHANGED <<sem_values, sem_waiters, sem_out>>
    /\ UNCHANGED <<kvars, pvars, bvars, xvars>>

\* SemaphoreStation.tick: the in-queue is drained, request by request.
SemTick ==
    /\ sem_in # <<>>
    /\ LET S == sem_drain(Station, sem_in)
       IN  /\ sem_values' = S.values
           /\ sem_waiters' = S.waiters
           /\ sem_out' = S.out
    /\ sem_in' = <<>>
    /\ UNCHANGED sem_sent
    /\ UNCHANGED <<kvars, pvars, bvars, xvars>>

\* SemaphoreStation.__init__: every counter 0, no waiter.
InitSem ==
    /\ sem_values = [i \in 1..SemCount |-> 0]
    /\ sem_waiters = [i \in 1..SemCount |-> <<>>]
    /\ sem_in = <<>>
    /\ sem_out = <<>>
    /\ sem_sent = 0
    /\ RestKernel /\ RestPool /\ RestBuf /\ RestOthers

NextSem == SemDeliver \/ SemTick

SpecSem == InitSem /\ [][NextSem]_vars

(***************************************************************************)
(* Properties of the semaphore station (specification SpecSem).            *)
(***************************************************************************)
\* C5: for every index, values[i] >= 0, and values[i] > 0 only when no
\* waiter is queued on i, after any sequence of signals, waits and requests
\* with an invalid index.
C5_SemaphoreInvariant ==
    \A i \in 1..SemCount :
        /\ sem_values[i] >= 0
        /\ sem_values[i] > 0 => sem_waiters[i] = <<>>

\* The station processed requests, an invalid one among them, and holds a
\* positive counter on one index and a queued waiter on the other.
C5_Witness ==
    /\ sem_in = <<>>
    /\ Len(sem_out) = 2
    /\ sem_sent = 3
    /\ \E i, j \in 1..SemCount : sem_values[i] > 0 /\ sem_waiters[j] # <<>>

\* The waits enqueued on index idx, in the order of their wait_enqueued acks.
Enqueued(idx) ==
    LET acks == SelectSeq(sem_out, LAMBDA m : m.kind = "sem_ack" /\ m.index = idx
                                                /\ m.action = "wait_enqueued")
    IN  [k \in 1..Len(acks) |-> [src |-> acks[k].dst, id |-> acks[k].reply_to]]

\* The grants emitted on index idx to waits that had been enqueued, in order.
QueuedGrants(idx) ==
    LET ids == {Enqueued(idx)[k].id : k \in 1..Len(Enqueued(idx))}
        grants == SelectSeq(sem_out, LAMBDA m : m.kind = "sem_granted" /\ m.index = idx
                                                  /\ m.reply_to \in ids)
    IN  [k \in 1..Len(grants) |-> [src |-> grants[k].dst, id |-> grants[k].reply_to]]

\* C6: on every index the grants to enqueued waits are emitted in the order
\* the waits were enqueued: the grants so far are the first enqueued waits,
\* in order, the waiters still queued are the rest, and each such grant
\* comes from one signal (it is followed by that signal's ack).
C6_GrantsAreFifo ==
    /\ \A i \in 0..(SemCount - 1) :
          Enqueued(i) = QueuedGrants(i) \o sem_waiters[i + 1]
    /\ \A p \in 1..Len(sem_out) :
          (sem_out[p].kind = "sem_granted"
             /\ \E k \in 1..Len(Enqueued(sem_out[p].index)) :
                    Enqueued(sem_out[p].index)[k].id = sem_out[p].reply_to)
          => /\ p < Len(sem_out)
             /\ sem_out[p + 1].kind = "sem_ack"
             /\ sem_out[p + 1].action = "signal"
             /\ sem_out[p + 1].index = sem_out[p].index

\* Two clients waited on one index and two signals granted them in turn.
C6_Witness ==
    \E i \in 0..(SemCount - 1) :
        /\ Len(QueuedGrants(i)) = 2
        /\ QueuedGrants(i)[1].src # QueuedGrants(i)[2].src
        /\ QueuedGrants(i)[1].id < QueuedGrants(i)[2].id

\* The step is a tick of the station that processes the one request req.
TickOf(req) == sem_in = <<req>> /\ sem_in' = <<>>

\* The messages the step adds to the station's out-queue.
Emitted == SubSeq(sem_out', Len(sem_out) + 1, Len(sem_out'))

\* No index other than idx has its counter or its waiter list changed.
OthersKept(idx) ==
    \A j \in 1..SemCount :
        j # idx + 1 => sem_values'[j] = sem_values[j] /\ sem_waiters'[j] = sem_waiters[j]

IsGrant(m, dst, idx, reply_to) ==
    m.kind = "sem_granted" /\ m.dst = dst /\ m.index = idx /\ m.reply_to = reply_to

IsAck(m, dst, idx, action, value, reply_to) ==
    /\ m.kind = "sem_ack" /\ m.dst = dst /\ m.index = idx /\ m.action = action
    /\ m.value = value /\ m.reply_to = reply_to

\* C26: processing sem_signal(i) with a valid index: with a waiter queued
\* on i, exactly the head waiter is removed, one sem_granted goes to it and
\* values[i] stays; with none, values[i] grows by 1 and no grant is emitted.
\* Either way one sem_ack(action=signal) with the resulting values[i] goes
\* to the signaler, and no other index changes.
C26_SignalStep ==
    [][\A idx \in 0..(SemCount - 1) :
          (sem_in # <<>> /\ TickOf(Head(sem_in)) /\ Head(sem_in).kind = "sem_signal"
             /\ Head(sem_in).index = idx)
          => LET req == Head(sem_in)
                 q == sem_waiters[idx + 1]
             IN  /\ IsPrefix(sem_out, sem_out')
                 /\ OthersKept(idx)
                 /\ IF q # <<>>
                    THEN /\ sem_waiters'[idx + 1] = Tail(q)
                         /\ sem_values'[idx + 1] = sem_values[idx + 1]
                         /\ Len(Emitted) = 2
                         /\ IsGrant(Emitted[1], Head(q).src, idx, Head(q).id)
                         /\ IsAck(Emitted[2], req.src, idx, "signal",
                                  sem_values'[idx + 1], req.id)
                    ELSE /\ sem_waiters'[idx + 1] = <<>>
                         /\ sem_values'[idx + 1] = sem_values[idx + 1] + 1
                         /\ Len(Emitted) = 1
                         /\ IsAck(Emitted[1], req.src, idx, "signal",
                                  sem_values'[idx + 1], req.id)]_vars

\* One signal was handed to a queued waiter and another raised a counter.
C26_Witness ==
    /\ \E p \in 1..(Len(sem_out) - 1) :
          /\ sem_out[p].kind = "sem_granted"
          /\ sem_out[p + 1].kind = "sem_ack" /\ sem_out[p + 1].action = "signal"
          /\ sem_out[p + 1].value = 0
    /\ \E p \in 1..Len(sem_out) :
          /\ sem_out[p].kind = "sem_ack" /\ sem_out[p].action = "signal"
          /\ sem_out[p].value = 1
          /\ sem_values[sem_out[p].index + 1] = 1

\* How many messages of the out-queue are of the given kind and index, with
\* one of the given actions.
CountOut(kind, idx, actions) ==
    Len(SelectSeq(sem_out, LAMBDA m : m.kind = kind /\ m.index = idx
                                          /\ m.action \in actions))

SignalsProcessed(idx) == CountOut("sem_ack", idx, {"signal"})
WaitsProcessed(idx) == CountOut("sem_ack", idx, {"wait_immediate", "wait_enqueued"})
GrantsIssued(idx) == CountOut("sem_granted", idx, {"grant"})

\* C27: processing sem_wait(i) with a valid index: with values[i] > 0 it
\* is decremented and a sem_granted and a sem_ack(wait_immediate) go to the
\* requester; otherwise (src, msg_id) joins the tail of waiters[i] and a
\* sem_ack(wait_enqueued) goes to the requester.  At any time, for every
\* index the grants issued are min(signals processed, waits processed) and
\* values[i] - len(waiters[i]) = signals processed - waits processed.
C27_WaitStep ==
    /\ [](\A idx \in 0..(SemCount - 1) :
            /\ GrantsIssued(idx) = Min(SignalsProcessed(idx), WaitsProcessed(idx))
            /\ sem_values[idx + 1] - Len(sem_waiters[idx + 1])
                  = SignalsProcessed(idx) - WaitsProcessed(idx))
    /\ [][\A idx \in 0..(SemCount - 1) :
            (sem_in # <<>> /\ TickOf(Head(sem_in)) /\ Head(sem_in).kind = "sem_wait"
               /\ Head(sem_in).index = idx)
            => LET req == Head(sem_in)
               IN  /\ IsPrefix(sem_out, sem_out')
                   /\ OthersKept(idx)
                   /\ IF sem_values[idx + 1] > 0
                      THEN /\ sem_values'[idx + 1] = sem_values[idx + 1] - 1
                           /\ sem_waiters'[idx + 1] = sem_waiters[idx + 1]
                           /\ Len(Emitted) = 2
                           /\ IsGrant(Emitted[1], req.src, idx, req.id)
                           /\ IsAck(Emitted[2], req.src, idx, "wait_immediate",
                                    sem_values'[idx + 1], req.id)
                      ELSE /\ sem_values'[idx + 1] = sem_values[idx + 1]
                           /\ sem_waiters'[idx + 1]
                                 = Append(sem_waiters[idx + 1],
                                          [src |-> req.src, id |-> req.id])
                           /\ Len(Emitted) = 1
                           /\ IsAck(Emitted[1], req.src, idx, "wait_enqueued",
                                    sem_values'[idx + 1], req.id)]_vars

\* On one index a wait was granted at once and a later wait is queued; the
\* grants are fewer than the waits.
C27_Witness ==
    \E idx \in 0..(SemCount - 1) :
        /\ CountOut("sem_ack", idx, {"wait_immediate"}) = 1
        /\ CountOut("sem_ack", idx, {"wait_enqueued"}) = 1
        /\ Len(sem_waiters[idx + 1]) = 1
        /\ GrantsIssued(idx) = 1
        /\ SignalsProcessed(idx) = 1

\* The requests of q whose index is valid.
ValidOnly(q) == SelectSeq(q, LAMBDA r : sem_validate_index(r.index))

\* C28: a sem_signal or sem_wait whose index is outside [0, count), or
\* missing, is dropped: a tick empties the in-queue and emits exactly one
\* ack per request with a valid index, in the order of the requests, those
\* after an invalid one included; a tick that finds only invalid requests
\* changes no counter and no waiter list and emits nothing.
C28_InvalidIndexDropped ==
    [][(sem_in # <<>> /\ sem_in' = <<>>)
          => LET acks == SelectSeq(Emitted, LAMBDA m : m.kind = "sem_ack")
                 valid == ValidOnly(sem_in)
             IN  /\ IsPrefix(sem_out, sem_out')
                 /\ Len(acks) = Len(valid)
                 /\ \A k \in 1..Len(valid) :
                       acks[k].reply_to = valid[k].id /\ acks[k].index = valid[k].index
                 /\ \A k \in 1..Len(Emitted) : sem_validate_index(Emitted[k].index)
                 /\ valid = <<>> => /\ sem_values' = sem_values
                                    /\ sem_waiters' = sem_waiters
                                    /\ sem_out' = sem_out]_vars

\* The station took three requests: the first and the third, of invalid
\* index, left no trace, and the second was acknowledged.
C28_Witness ==
    /\ sem_in = <<>>
    /\ sem_sent = 3
    /\ Len(sem_out) = 1
    /\ sem_out[1].kind = "sem_ack"
    /\ sem_out[1].reply_to = 2


(***************************************************************************)
(* The BufferPool's ownership API called in any order (SpecPool).  The     *)
(* DataBuffer objects are 1..MaxBufs and buffer b has size b; the owners   *)
(* are two resource names and None.                                        *)
(***************************************************************************)
BufIds == 1..MaxBufs
Owners == {"m1", "m2", None}

\* The record of a call op(id, owner) of the pool's API; raised tells whether
\* the call ended with an exception.
Call(op, id, owner, raised) == [op |-> op, id |-> id, owner |-> owner, raised |-> raised]

\* register(buffer, owner); create(size, owner=owner) is the case of an id
\* never seen before.
PoolRegister ==
    /\ \E id \in BufIds, owner \in Owners :
          /\ StorePool(pool_register(Pool, id, DataBuffer(id, None, "source", None, None),
                                     owner))
          /\ pool_call' = Call("register", id, owner, FALSE)
    /\ UNCHANGED <<kvars, svars, bvars, avars, mvars, rvars, dvars, busvars, tvars,
                   fvars,
                   nvars>>

PoolSetOwner ==
    /\ \E id \in BufIds, owner \in Owners :
          /\ StorePool(pool_set_owner(Pool, id, owner))
          /\ pool_call' = Call("set_owner", id, owner, FALSE)
    /\ UNCHANGED <<kvars, svars, bvars, avars, mvars, rvars, dvars, busvars, tvars,
                   fvars,
                   nvars>>

\* transfer(id, new_owner); with an unknown id it raises KeyError and the
\* pool is as before.
PoolTransfer ==
    /\ \E id \in BufIds, owner \in Owners :
          /\ StorePool(pool_transfer(Pool, id, owner))
          /\ pool_call' = Call("transfer", id, owner, ~pool_transfer_ok(Pool, id))
    /\ UNCHANGED <<kvars, svars, bvars, avars, mvars, rvars, dvars, busvars, tvars,
                   fvars,
                   nvars>>

PoolDelete ==
    /\ \E id \in BufIds :
          /\ StorePool(pool_delete(Pool, id))
          /\ pool_call' = Call("delete", id, None, FALSE)
    /\ UNCHANGED <<kvars, svars, bvars, avars, mvars, rvars, dvars, busvars, tvars,
                   fvars,
                   nvars>>

\* BufferPool.__init__: every dictionary empty.
InitPool == RestPool /\ RestKernel /\ RestSem /\ RestBuf /\ RestOthers

NextPool == PoolRegister \/ PoolSetOwner \/ PoolTransfer \/ PoolDelete

SpecPool == InitPool /\ [][NextPool]_vars

(***************************************************************************)
(* Properties of the pool's ownership API (specification SpecPool).        *)
(***************************************************************************)
\* C7: every buffer id in the pool has an entry in the owner map and is a
\* member of exactly one owned_by set, the set of its owner; no deleted id
\* is left in an owned_by set.
C7_OneOwnerEntry ==
    /\ \A id \in DOMAIN pool_buffers :
          /\ id \in DOMAIN pool_owner_of
          /\ pool_owner_of[id] \in DOMAIN pool_owned_by
          /\ \A o \in DOMAIN pool_owned_by :
                id \in pool_owned_by[o] <=> o = pool_owner_of[id]
    /\ \A id \in pool_deleted : \A o \in DOMAIN pool_owned_by : id \notin pool_owned_by[o]

\* The bytes of the buffers of the pool whose owner, as owner(id) reports
\* it, is o.
BytesOfOwner(o) ==
    SumSizes(pool_buffers, {id \in DOMAIN pool_buffers : pool_owner(Pool, id) = o})

\* C8: for every owner o, None included, bytes_owned(o) is the sum of the
\* sizes of the buffers whose owner is o, and the bytes_owned of all owners
\* add up to total_bytes().
C8_BytesOwned ==
    /\ \A o \in Owners : pool_bytes_owned(Pool, o) = BytesOfOwner(o)
    /\ SumOver([o \in Owners |-> pool_bytes_owned(Pool, o)], Owners)
          = pool_total_bytes(Pool)

\* C21: a call transfer(id, new_owner) with an id that is not registered
\* raises and leaves the registry, the owner map and every owned_by set as
\* they were; with a registered id it does not raise, and afterwards
\* owner(id) is new_owner and id is in the set of no other owner.
C21_TransferFailsOrMoves ==
    [][pool_call'.op = "transfer" =>
         LET id == pool_call'.id
             new_owner == pool_call'.owner
         IN  IF id \notin DOMAIN pool_buffers
             THEN /\ pool_call'.raised
                  /\ pool_buffers' = pool_buffers
                  /\ pool_owner_of' = pool_owner_of
                  /\ pool_owned_by' = pool_owned_by
             ELSE /\ ~pool_call'.raised
                  /\ Get(pool_owner_of', id, None) = new_owner
                  /\ \A o \in DOMAIN pool_owned_by' :
                        o # new_owner => id \notin pool_owned_by'[o]]_vars

\* A buffer registered with one owner was transferred to another: the call
\* did not raise, the former owner's set is empty and the new owner holds it.
C21_Witness ==
    /\ pool_call.op = "transfer"
    /\ ~pool_call.raised
    /\ pool_call.owner = "m2"
    /\ "m1" \in DOMAIN pool_owned_by
    /\ pool_owned_by["m1"] = {}
    /\ "m2" \in DOMAIN pool_owned_by
    /\ pool_owned_by["m2"] = {pool_call.id}


(***************************************************************************)
(* One DataBuffer, its byte counters and the OutputQueue that sends it     *)
(* (SpecBuf).  buf holds the counters of the buffer; the pool holds its    *)
(* other fields when the buffer was registered.                            *)
(***************************************************************************)
\* DataBuffer.buffering_size
buffering_size(b) == Max(0, b.bytes_received - b.bytes_sent)

\* DataBuffer.add_received
add_received(b, amount) ==
    [b EXCEPT !.bytes_received = Min(b.size, Max(0, b.bytes_received + amount))]

\* DataBuffer.add_sent
add_sent(b, amount) ==
    [b EXCEPT !.bytes_sent = Min(b.size, Max(0, b.bytes_sent + amount))]

\* BufferPool.schedule_transfer; dest_id is the id of the DataBuffer it
\* creates.  The pool is as before when the source is not in the pool.
pool_schedule_transfer(P, src_buffer_id, dest_id, dst_memory, dst_pe, dst_queue) ==
    IF src_buffer_id \notin DOMAIN P.buffers THEN P
    ELSE LET dest == DataBuffer(P.buffers[src_buffer_id].size, dst_memory,
                                "destination", dst_pe, dst_queue)
             P1 == pool_register(P, dest_id, dest, dst_memory)
             P2 == pool_set_state(P1, src_buffer_id, "transit")
             P3 == pool_set_state(P2, dest_id, "transit")
         IN  [P3 EXCEPT !.meta = Put(@, dest_id,
                  [source_id |-> src_buffer_id, destination_pe |-> dst_pe,
                   destination_queue |-> dst_queue])]

\* step(sim) without a channel: channel is None.
NoChannel == [present |-> FALSE, bandwidth |-> 0, latency |-> 0, backpressured |-> FALSE]

\* The channels OutputQueue.step is called with: none, or one of some
\* bandwidth and latency that may be backpressured.
Channels ==
    {NoChannel} \cup [present : {TRUE}, bandwidth : 0..MaxChanBw, latency : 0..1,
                      backpressured : BOOLEAN]

\* Channel.current_bandwidth
current_bandwidth(ch) == IF ch.backpressured THEN 0 ELSE ch.bandwidth

\* The id uuid4 gives the next DataBuffer: one no buffer had before.
FreshId == buf.id + 1 + buf_calls

BufAddReceived ==
    /\ buf_calls < MaxBufCalls
    /\ \E amount \in (0 - MaxBufSize)..MaxBufSize : buf' = add_received(buf, amount)
    /\ buf_calls' = buf_calls + 1
    /\ UNCHANGED <<oq_items, oq_scheduled, oq_dest_map, kvars, pvars, svars, xvars>>

BufAddSent ==
    /\ buf_calls < MaxBufCalls
    /\ \E amount \in (0 - MaxBufSize)..MaxBufSize : buf' = add_sent(buf, amount)
    /\ buf_calls' = buf_calls + 1
    /\ UNCHANGED <<oq_items, oq_scheduled, oq_dest_map, kvars, pvars, svars, xvars>>

\* OutputQueue.enqueue_transfer(buf, "m2")
EnqueueTransfer ==
    /\ buf_calls < MaxBufCalls
    /\ Len(oq_items) < MaxQueued
    /\ oq_items' = Append(oq_items,
          [buf |-> buf.id, dst_mem |-> "m2", dst_pe |-> None, dst_q |-> "in0"])
    /\ buf_calls' = buf_calls + 1
    /\ UNCHANGED <<buf, oq_scheduled, oq_dest_map, kvars, pvars, svars, xvars>>

\* OutputQueue.step(sim, channel)
OutputQueueStep ==
    /\ buf_calls < MaxBufCalls
    /\ buf_calls' = buf_calls + 1
    /\ \E channel \in Channels :
        IF oq_items = <<>>
        THEN UNCHANGED <<buf, oq_items, oq_scheduled, oq_dest_map, pvars>>
        ELSE
          LET head == Head(oq_items)
              first == buf.id \notin oq_scheduled
              known == buf.id \in DOMAIN pool_buffers
              P1 == IF first
                    THEN pool_schedule_transfer(Pool, buf.id, FreshId, head.dst_mem,
                                                head.dst_pe, head.dst_q)
                    ELSE Pool
              dm1 == IF first
                     THEN Put(oq_dest_map, buf.id, IF known THEN FreshId ELSE 0)
                     ELSE oq_dest_map
              sch1 == IF first THEN oq_scheduled \cup {buf.id} ELSE oq_scheduled
              b1 == IF first /\ buf.bytes_received < buf.size
                    THEN add_received(buf, buf.size - buf.bytes_received)
                    ELSE buf
              paused == channel.present /\ current_bandwidth(channel) <= 0
              buffering == buffering_size(b1)
              send_bytes == IF ~channel.present THEN buffering
                            ELSE Min(buffering, current_bandwidth(channel))
              b2 == add_sent(b1, send_bytes)
              dest_id == Get(dm1, buf.id, 0)
              arrival == ticks + (IF channel.present THEN channel.latency ELSE 0)
          IN  IF paused \/ buffering <= 0
              THEN /\ buf' = b1
                   /\ oq_scheduled' = sch1
                   /\ oq_dest_map' = dm1
                   /\ StorePool(P1)
                   /\ UNCHANGED oq_items
              ELSE /\ buf' = b2
                   /\ IF b2.bytes_sent >= b2.size
                      THEN /\ StorePool(IF dest_id # 0
                                        THEN pool_record_expected_arrival(P1, dest_id, arrival)
                                        ELSE P1)
                           /\ oq_items' = Tail(oq_items)
                           /\ oq_scheduled' = sch1 \ {buf.id}
                           /\ oq_dest_map' = Drop(dm1, buf.id)
                      ELSE /\ StorePool(P1)
                           /\ oq_scheduled' = sch1
                           /\ oq_dest_map' = dm1
                           /\ UNCHANGED oq_items
    /\ UNCHANGED <<kvars, svars, xvars>>

\* A DataBuffer just constructed, of some size, registered with the pool for
\* "m1" or not known to it, and an empty OutputQueue.
InitBuf ==
    /\ \E size \in 1..MaxBufSize :
          buf = [id |-> 1, size |-> size, bytes_received |-> 0, bytes_sent |-> 0]
    /\ oq_items = <<>>
    /\ oq_scheduled = {}
    /\ oq_dest_map = EmptyMap
    /\ buf_calls = 0
    /\ \E registered \in BOOLEAN :
          LET P == IF registered
                   THEN pool_register(EmptyPool, 1,
                            DataBuffer(buf.size, None, "source", None, None), "m1")
                   ELSE EmptyPool
          IN  /\ pool_buffers = P.buffers
              /\ pool_owner_of = P.owner_of
              /\ pool_owned_by = P.owned_by
              /\ pool_expected = P.expected
              /\ pool_meta = P.meta
              /\ pool_deleted = P.deleted
    /\ RestKernel
    /\ RestSem
    /\ RestOthers

NextBuf == BufAddReceived \/ BufAddSent \/ EnqueueTransfer \/ OutputQueueStep

SpecBuf == InitBuf /\ [][NextBuf]_vars

\* C9: after any sequence of add_received, add_sent and OutputQueue.step
\* calls from bytes_received = bytes_sent = 0, the buffer has
\* 0 <= bytes_sent <= bytes_received <= size.
C9_BytesOrdered ==
    /\ 0 <= buf.bytes_sent
    /\ buf.bytes_sent <= buf.bytes_received
    /\ buf.bytes_received <= buf.size


(***************************************************************************)
(* Arbiter (resources/arbiter.py) in front of a Channel (core/channel.py), *)
(* fed by two BufferGenerators (SpecArb).                                  *)
(***************************************************************************)
\* arb.add_input("in0"); arb.add_input("in1")
ArbInputs == <<"in0", "in1">>
NumInputs == Len(ArbInputs)

\* Channel.estimate_ticks returns this when current_bandwidth is 0.
StalledTicks == 1000000000

\* math.ceil(a / b) for b > 0
CeilDiv(a, b) == (a + b - 1) \div b

\* Channel.estimate_ticks
estimate_ticks(ch, size) ==
    IF current_bandwidth(ch) <= 0
    THEN StalledTicks
    ELSE Max(0, ch.latency) + CeilDiv(Max(1, size), current_bandwidth(ch))

\* _next_nonempty_from searching from input 0 whatever the start.
next_nonempty_from_first(inq, start) ==
    LET offs == {i \in 0..(NumInputs - 1) : inq[ArbInputs[i + 1]] # <<>>}
    IN  IF offs = {} THEN -1 ELSE CHOOSE i \in offs : \A j \in offs : i <= j

\* Arbiter._next_nonempty_from: the index (from 0) of the first input at or
\* after start, cyclically, whose queue is not empty; -1 for None.
next_nonempty_from(inq, start) ==
    LET offs == {i \in 0..(NumInputs - 1) :
                    inq[ArbInputs[((start + i) % NumInputs) + 1]] # <<>>}
    IN  IF offs = {} THEN -1
        ELSE (start + (CHOOSE i \in offs : \A j \in offs : i <= j)) % NumInputs

\* The channel_mode Arbiter.tick decides on: the channel's transfer_mode, or
\* the legacy mapping of arbiter.mode when there is no channel.
channel_mode(A) ==
    IF chan.present THEN chan.transfer_mode
    ELSE IF A.mode = "shared" THEN "interleaving" ELSE "blocking"

\* The clean-up at the top of Arbiter.tick.
arb_cleanup(A, now) ==
    IF chan.present /\ chan.transfer_mode = "interleaving"
    THEN LET act == SelectSeq(A.active, LAMBDA a : a.expected > now)
             ports == {act[k].port : k \in 1..Len(act)}
         IN  [A EXCEPT !.active = act,
                       !.inflight_by_port =
                           [q \in DOMAIN @ |-> IF @[q] # 0 /\ q \notin ports THEN 0 ELSE @[q]]]
    ELSE IF A.available_from <= now
         THEN [A EXCEPT !.inflight_by_port = [q \in DOMAIN @ |-> 0]]
         ELSE A

\* The loop of Arbiter._recompute_interleaving over the pool: the expected
\* arrival of every active transfer that carries a buffer id is recorded.
RECURSIVE record_all(_, _, _)
record_all(P, active, k) ==
    IF k > Len(active) THEN P
    ELSE record_all(IF active[k].buf_id # 0
                    THEN pool_record_expected_arrival(P, active[k].buf_id,
                                                      active[k].expected)
                    ELSE P,
                    active, k + 1)

\* Arbiter._recompute_interleaving; S is the arbiter a and the pool p.
recompute_interleaving(S, now) ==
    IF ~chan.present \/ S.a.active = <<>> THEN S
    ELSE LET n == Max(1, Len(S.a.active))
             share_bw == Max(1, chan.bandwidth \div n)
             upd(a) ==
                 LET dt == Max(0, now - a.last_update)
                     prev_bw == IF a.per_share_bw # 0 THEN a.per_share_bw ELSE share_bw
                     progressed == Min(a.total, a.progressed + dt * prev_bw)
                     remaining == Max(0, a.total - progressed)
                     lat_elapsed == Max(0, now - a.start)
                     lat_rem == Max(0, chan.latency - lat_elapsed)
                     data_ticks == CeilDiv(remaining, share_bw)
                 IN  [a EXCEPT !.progressed = progressed,
                               !.per_share_bw = share_bw,
                               !.last_update = now,
                               !.expected = now + lat_rem + data_ticks]
             act == [k \in 1..Len(S.a.active) |-> upd(S.a.active[k])]
         IN  [a |-> [S.a EXCEPT !.active = act], p |-> record_all(S.p, act, 1)]

\* One admission of the interleaving branch: the head of the queue of port.
interleaving_admit(S, port, now) ==
    LET msg == Head(S.a.inbox[port])
        A1 == [S.a EXCEPT
                 !.inbox[port] = Tail(@),
                 !.inflight_by_port[port] = IF msg.buf_id # 0 THEN msg.buf_id ELSE -1,
                 !.active = Append(@, [port |-> port, buf_id |-> msg.buf_id,
                                       total |-> msg.size, progressed |-> 0,
                                       start |-> now, last_update |-> now,
                                       per_share_bw |-> 0, expected |-> now]),
                 !.out = Append(@, msg)]
    IN  recompute_interleaving([a |-> A1, p |-> S.p], now)

\* The while loop of the interleaving branch, from input idx on.
RECURSIVE interleaving_loop(_, _, _, _)
interleaving_loop(S, idx, visited, now) ==
    IF idx = -1 \/ visited >= NumInputs THEN S
    ELSE LET port == ArbInputs[idx + 1]
             S1 == IF S.a.inbox[port] # <<>> /\ S.a.inflight_by_port[port] = 0
                   THEN interleaving_admit(S, port, now)
                   ELSE S
             next_idx == next_nonempty_from(S1.a.inbox, idx + 1)
         IN  IF next_idx = -1 THEN S1
             ELSE interleaving_loop(S1, next_idx, visited + 1, now)

\* The interleaving branch of Arbiter.tick.
interleaving_branch(S, now) ==
    LET start == S.a.rr_index
        S1 == interleaving_loop(S, next_nonempty_from(S.a.inbox, start), 0, now)
    IN  [a |-> [S1.a EXCEPT !.rr_index = (start + 1) % NumInputs],
         p |-> S1.p,
         active_count |-> Len(S1.a.active),
         admitted |-> <<>>]

\* The guard of the blocking branch left out.
ChannelFreeAlways(A, now) == TRUE

\* The blocking branch admits only when the channel is free.
ChannelFree(A, now) == A.available_from <= now

\* BufferPool._expected_arrival.get(id), -1 for None.
pool_expected_of(P, id) ==
    IF \E k \in 1..Len(P.expected) : P.expected[k].id = id
    THEN P.expected[CHOOSE k \in 1..Len(P.expected) : P.expected[k].id = id].tick
    ELSE -1

\* The blocking branch of Arbiter.tick.
blocking_branch(S, now) ==
    LET A == S.a
        switch == A.active_port = None \/ A.inbox[A.active_port] = <<>>
        idx == next_nonempty_from(A.inbox, A.rr_index)
        A1 == IF switch
              THEN [A EXCEPT !.active_port = IF idx # -1 THEN ArbInputs[idx + 1] ELSE None,
                             !.rr_index = IF idx # -1 THEN (idx + 1) % NumInputs ELSE @]
              ELSE A
        port == A1.active_port
        admit == port # None /\ ChannelFree(A1, now) /\ A1.inbox[port] # <<>>
        msg == Head(A1.inbox[port])
        scheduled == admit /\ msg.kind = "buffer_transfer" /\ chan.present
        arrival == Max(now, A1.available_from) + estimate_ticks(chan, msg.size)
        A2 == IF ~admit THEN A1
              ELSE IF scheduled
              THEN [A1 EXCEPT !.inbox[port] = Tail(@),
                              !.available_from = arrival,
                              !.inflight_by_port[port] =
                                  IF msg.buf_id # 0 THEN msg.buf_id ELSE -1,
                              !.out = Append(@, msg)]
              ELSE [A1 EXCEPT !.inbox[port] = Tail(@), !.out = Append(@, msg)]
        P2 == IF scheduled /\ msg.buf_id # 0
              THEN pool_record_expected_arrival(S.p, msg.buf_id, arrival)
              ELSE S.p
    IN  [a |-> A2, p |-> P2,
         active_count |-> IF port = None THEN chan.active_count
                          ELSE IF A2.available_from > now THEN 1 ELSE 0,
         admitted |-> IF scheduled
                      THEN <<[tick |-> now, port |-> port, buf_id |-> msg.buf_id,
                              size |-> msg.size, arrival |-> arrival,
                              recorded |-> pool_expected_of(P2, msg.buf_id),
                              backpressured |-> chan.backpressured]>>
                      ELSE <<>>]

\* Arbiter.tick
arbiter_tick(A, P, now) ==
    LET S == [a |-> arb_cleanup(A, now), p |-> P]
    IN  IF channel_mode(A) = "interleaving"
        THEN interleaving_branch(S, now)
        ELSE blocking_branch(S, now)

ArbTick ==
    /\ arb_phase = "tick"
    /\ LET R == arbiter_tick(arb, Pool, arb_ticks)
       IN  /\ arb' = R.a
           /\ StorePool(R.p)
           /\ chan' = IF chan.present THEN [chan EXCEPT !.active_count = R.active_count]
                      ELSE chan
           /\ arb_hist' = arb_hist \o R.admitted
    /\ arb_phase' = "env"
    /\ UNCHANGED <<arb_ticks, arb_sent, kvars, svars, bvars, mvars, ovars>>

\* BufferGenerator.tick creates and registers a buffer and sends its
\* buffer_transfer, which the latency-0 link to the arbiter's input delivers
\* in the same tick.
GenTransfer ==
    /\ arb_phase = "env"
    /\ arb_sent < MaxArbMsgs
    /\ \E k \in 1..NumInputs, size \in {1, MaxArbSize} :
          LET id == arb_sent + 1
              gen == IF k = 1 THEN "gen0" ELSE "gen1"
              P1 == pool_register(Pool, id, DataBuffer(size, None, "source", None, None), gen)
              P2 == pool_set_state(pool_set_state(P1, id, "allocated"), id, "transit")
          IN  /\ StorePool(P2)
              /\ arb' = [arb EXCEPT !.inbox[ArbInputs[k]] =
                            Append(@, [kind |-> "buffer_transfer", size |-> size,
                                       buf_id |-> id, src |-> gen])]
    /\ arb_sent' = arb_sent + 1
    /\ UNCHANGED <<chan, arb_ticks, arb_phase, arb_hist, kvars, svars, bvars, mvars, ovars>>

\* BufferGenerator.tick sends a buffer_consume: a message of size 1 whose
\* payload holds no buffer.
GenConsume ==
    /\ arb_phase = "env"
    /\ arb_sent < MaxArbMsgs
    /\ \E k \in 1..NumInputs :
          arb' = [arb EXCEPT !.inbox[ArbInputs[k]] =
                     Append(@, [kind |-> "buffer_consume", size |-> 1, buf_id |-> 0,
                                src |-> IF k = 1 THEN "gen0" ELSE "gen1"])]
    /\ arb_sent' = arb_sent + 1
    /\ UNCHANGED <<chan, arb_ticks, arb_phase, arb_hist, kvars, pvars, svars, bvars, mvars, ovars>>

\* Memory.tick propagates its backpressure to the channel it registered.
ChanSetBackpressure ==
    /\ arb_phase = "env"
    /\ chan.present
    /\ \E flag \in BOOLEAN : chan' = [chan EXCEPT !.backpressured = flag]
    /\ UNCHANGED <<arb, arb_ticks, arb_phase, arb_hist, arb_sent,
                   kvars, pvars, svars, bvars, mvars, ovars>>

\* The rest of Simulator.tick: the link takes what the arbiter sent, ticks
\* is incremented and the pool makes its time update.
ArbEndTick ==
    /\ arb_phase = "env"
    /\ arb_ticks < MaxArbTicks
    /\ arb' = [arb EXCEPT !.out = <<>>]
    /\ arb_ticks' = arb_ticks + 1
    /\ StorePool(pool_tick(Pool, arb_ticks + 1))
    /\ arb_phase' = "tick"
    /\ UNCHANGED <<chan, arb_hist, arb_sent, kvars, svars, bvars, mvars, ovars>>

\* The channels an arbiter is built with: none, or one of either mode.
Downstreams ==
    {NoDownstream} \cup
    [present : {TRUE}, transfer_mode : {"interleaving", "blocking"},
     bandwidth : 1..MaxChanBw, latency : {0, MaxArbLat}, backpressured : {FALSE},
     active_count : {0}]

InitArb ==
    /\ chan \in Downstreams
    /\ \E mode \in {"shared", "scheduled"} :
          /\ chan.present => mode = "shared"
          /\ arb = [mode |-> mode,
                    inbox |-> [q \in {"in0", "in1"} |-> <<>>],
                    out |-> <<>>, rr_index |-> 0, active_port |-> None,
                    available_from |-> 0,
                    inflight_by_port |-> [q \in {"in0", "in1"} |-> 0],
                    active |-> <<>>]
    /\ arb_ticks = 0
    /\ arb_phase = "env"
    /\ arb_hist = <<>>
    /\ arb_sent = 0
    /\ RestPool /\ RestKernel /\ RestSem /\ RestBuf /\ RestMem /\ RestNew

NextArb == ArbTick \/ GenTransfer \/ GenConsume \/ ChanSetBackpressure \/ ArbEndTick

SpecArb == InitArb /\ [][NextArb]_vars


(***************************************************************************)
(* Properties of the arbiter (specification SpecArb).                      *)
(***************************************************************************)
\* The longest a transfer occupies a channel that is not backpressured:
\* latency + ceil(size / bandwidth) with the smallest bandwidth, 1.
MaxDuration == MaxArbLat + MaxArbSize

\* C12: once the blocking channel is not backpressured, the arbiter is not
\* blocked beyond a normal channel duration and every buffer waiting for its
\* arrival is expected within a normal channel duration.
C12_RestoredChannelNotBlocked ==
    (chan.present /\ chan.transfer_mode = "blocking" /\ ~chan.backpressured)
    => /\ arb.available_from <= arb_ticks + MaxDuration
       /\ \A k \in 1..Len(pool_expected) :
             pool_expected[k].tick <= arb_ticks + MaxDuration

\* A step that is a call of Arbiter.tick.
IsArbTick == arb_phase = "tick" /\ arb_phase' = "env"

\* C13: in a tick in which the downstream channel's current_bandwidth is 0
\* the arbiter pops nothing from its input queues, appends nothing to out and
\* records or changes no expected arrival.
C13_StalledArbiterAdmitsNothing ==
    [][(IsArbTick /\ chan.present /\ current_bandwidth(chan) = 0)
       => /\ arb'.inbox = arb.inbox
          /\ arb'.out = arb.out
          /\ pool_expected' = pool_expected]_vars

\* C18: in blocking mode, of the buffer_transfer admissions made while the
\* channel is not backpressured, each records as expected arrival its
\* admission tick + latency + ceil(size / bandwidth), and is admitted no
\* earlier than the arrival recorded for the admission before it; so the
\* recorded arrivals increase by at least the duration of the later transfer.
C18_BlockingSerialized ==
    \A k \in 1..Len(arb_hist) :
        LET h == arb_hist[k]
            duration == chan.latency + CeilDiv(h.size, chan.bandwidth)
        IN  ~h.backpressured =>
              /\ h.recorded = h.tick + duration
              /\ (k > 1 /\ ~arb_hist[k - 1].backpressured) =>
                    /\ h.tick >= arb_hist[k - 1].recorded
                    /\ h.recorded >= arb_hist[k - 1].recorded + duration
                    /\ h.recorded > arb_hist[k - 1].recorded

\* Two transfers were admitted one after the other through a blocking
\* channel that was not backpressured.
C18_Witness ==
    /\ chan.present /\ chan.transfer_mode = "blocking"
    /\ Len(arb_hist) >= 2
    /\ ~arb_hist[1].backpressured /\ ~arb_hist[2].backpressured
    /\ arb_hist[2].size = MaxArbSize

\* C19: in interleaving mode with a downstream channel, at every tick
\* boundary, with now = sim.ticks, every active transfer has
\* expected >= now + max(0, latency - (now - start)).
C19_ExpectedCoversLatency ==
    (chan.present /\ chan.transfer_mode = "interleaving" /\ arb_phase = "tick")
    => \A k \in 1..Len(arb.active) :
          arb.active[k].expected >=
              arb_ticks + Max(0, chan.latency - (arb_ticks - arb.active[k].start))

\* C20: in interleaving mode, with a channel or by the legacy fallback, the
\* active-transfer set holds at most one entry per input port.
C20_OneOutstandingPerPort ==
    channel_mode(arb) = "interleaving"
    => /\ \A j, k \in 1..Len(arb.active) :
             j # k => arb.active[j].port # arb.active[k].port
       /\ Len(arb.active) <= NumInputs


\* The arbiter feeds a channel in interleaving mode.
Interleaved == chan.present /\ chan.transfer_mode = "interleaving"

\* The active transfers the clean-up of a tick at sim.ticks = now keeps.
StillActive(now) == SelectSeq(arb.active, LAMBDA a : a.expected > now)

\* C32: in interleaving mode a tick with an admission leaves every active
\* transfer with share = max(1, bandwidth \div active count), progressed
\* advanced by (now - last_update) times its previous share and capped at
\* total, and expected = now + max(0, latency - (now - start))
\* + ceil((total - progressed) / share); the pool holds that expected tick
\* for the buffer; and the buffer becomes arrived in the pool phase of the
\* tick whose counter is that expected tick.
C32_InterleavingRecompute ==
    /\ [][(IsArbTick /\ Interleaved /\ Len(arb'.active) > Len(StillActive(arb_ticks))) =>
            LET now == arb_ticks
                old == StillActive(now)
                n == Len(arb'.active)
                share == Max(1, chan.bandwidth \div n)
            IN  \A k \in 1..n :
                  LET a == arb'.active[k]
                      prog == IF k <= Len(old)
                              THEN Min(old[k].total,
                                       old[k].progressed
                                         + (now - old[k].last_update) * old[k].per_share_bw)
                              ELSE 0
                  IN  /\ a.progressed = prog
                      /\ a.per_share_bw = share
                      /\ a.expected = now + Max(0, chan.latency - (now - a.start))
                                          + CeilDiv(a.total - prog, share)
                      /\ a.buf_id # 0 =>
                           pool_expected_of([expected |-> pool_expected'], a.buf_id)
                             = a.expected]_vars
    /\ [][(arb_ticks' = arb_ticks + 1 /\ Interleaved) =>
            \A k \in 1..Len(pool_expected) :
               LET e == pool_expected[k]
               IN  /\ e.tick >= arb_ticks'
                   /\ pool_buffers'[e.id].state = "arrived" <=> e.tick = arb_ticks']_vars

\* C33: in interleaving mode a tick of the arbiter leaves no transfer that
\* stays active with an expected arrival earlier than the one it had.
C33_AdmissionNeverSpeedsUp ==
    [][(IsArbTick /\ Interleaved) =>
         \A k \in 1..Len(StillActive(arb_ticks)) :
            arb'.active[k].expected >= StillActive(arb_ticks)[k].expected]_vars


\* The arbiter runs its blocking branch.
Blocking == channel_mode(arb) = "blocking"

\* The number of messages in the input queues of the arbiter A.
Queued(A) == Len(A.inbox["in0"]) + Len(A.inbox["in1"])

\* Port p is the first input with a message, going round from the input at
\* the fairness pointer.
FirstInRoundRobin(p) ==
    \E d \in 0..(NumInputs - 1) :
        /\ p = ArbInputs[((arb.rr_index + d) % NumInputs) + 1]
        /\ arb.inbox[p] # <<>>
        /\ \A c \in 0..(d - 1) :
              arb.inbox[ArbInputs[((arb.rr_index + c) % NumInputs) + 1]] = <<>>

InProgress(A, now) ==
    IF chan.transfer_mode = "interleaving" THEN Len(A.active)
    ELSE IF A.available_from > now THEN 1 ELSE 0

\* C35: with a channel of either mode, every tick of the arbiter leaves the
\* channel's active count equal to the number of transfers in progress, so
\* that Channel.finalize_tick counts as busy exactly the ticks that have a
\* transfer in progress.
C35_ActiveStateEveryTick ==
    [][(IsArbTick /\ chan.present) =>
          chan'.active_count = InProgress(arb', arb_ticks)]_vars


(***************************************************************************)
(* Memory (resources/memory.py) with buffer requests, the triggers of      *)
(* BufferPool.set_state, and backpressure on its inbound channels          *)
(* (SpecMem).  The Memory is named "memory"; "sem" is a SemaphoreStation   *)
(* of the same topology.                                                   *)
(***************************************************************************)
MemName == "memory"

\* The buffer ids requests name: 1 and 2 are in the pool from the start, 3
\* is not.
MemBufIds == 1..3

\* {on: deallocated, action: signal, station: sem, index: 1}
DeallocSignal == [on |-> "deallocated", action |-> "signal", station |-> "sem", index |-> 1]

\* The resources a trigger can name: sim.topology.resources
TriggerStations == {"sem"}

\* BufferPool.set_state with the triggers of the buffer: the state is set and
\* every matching trigger delivers a semaphore request to its station.  S is
\* the pool p, the station's in-queue sem_in and the count sem_sent.
pool_set_state_fire(S, id, state) ==
    IF id \notin DOMAIN S.p.buffers THEN S
    ELSE LET fired == SelectSeq(mst_triggers[id],
                                LAMBDA t : t.on = state /\ t.station \in TriggerStations)
             msgs == [k \in 1..Len(fired) |->
                        [kind |-> IF fired[k].action = "signal" THEN "sem_signal"
                                  ELSE "sem_wait",
                         src |-> "buffer_pool", index |-> fired[k].index,
                         id |-> S.sem_sent + k]]
         IN  [S EXCEPT !.p = pool_set_state(S.p, id, state),
                       !.sem_in = @ \o msgs,
                       !.sem_sent = @ + Len(fired)]

\* Memory.deallocate_buffer
deallocate_buffer(P, buf_id) ==
    IF pool_owner(P, buf_id) = MemName THEN pool_delete(P, buf_id) ELSE P

\* A response put in flight as ready at once, whatever the latency.
InflightAtOnce(now, kind, dst, size, buf_id) ==
    [ready_tick |-> now,
     msg |-> [kind |-> kind, src |-> MemName, dst |-> dst, size |-> size,
              buf_id |-> buf_id, created_at |-> now]]

\* The response Memory.tick puts in flight for a request.
Inflight(now, kind, dst, size, buf_id) ==
    [ready_tick |-> now + Max(0, mcfg.latency),
     msg |-> [kind |-> kind, src |-> MemName, dst |-> dst, size |-> size,
              buf_id |-> buf_id, created_at |-> now]]

\* One iteration of the issue loop of Memory.tick, for the request req.
mem_issue(S, req, now) ==
    IF req.kind = "buffer_transfer"
    THEN LET P1 == IF req.buf_id \in DOMAIN S.p.buffers
                   THEN pool_transfer(S.p, req.buf_id, MemName)
                   ELSE pool_register(S.p, req.buf_id,
                                      DataBuffer(req.size, MemName, "source", None, None),
                                      MemName)
             S1 == [S EXCEPT !.p = P1,
                             !.inflight = Append(@, Inflight(now, "buffer_ack", req.src, 1,
                                                             req.buf_id))]
         IN  pool_set_state_fire(S1, req.buf_id, "responded")
    ELSE IF req.kind = "buffer_consume"
    THEN LET S1 == [S EXCEPT !.p = deallocate_buffer(S.p, req.buf_id)]
             S2 == pool_set_state_fire(S1, req.buf_id, "deallocated")
         IN  [S2 EXCEPT !.inflight = Append(@, Inflight(now, "buffer_freed", req.src, 1,
                                                        req.buf_id))]
    ELSE [S EXCEPT !.inflight = Append(@, Inflight(now, "resp", req.src, req.size, 0))]

RECURSIVE mem_issue_all(_, _, _)
mem_issue_all(S, reqs, now) ==
    IF reqs = <<>> THEN S ELSE mem_issue_all(mem_issue(S, Head(reqs), now), Tail(reqs), now)

\* backpressured = bytes_current > size_limit
IsBackpressuredStrict(current, limit) == current > limit

\* self.backpressured = self.bytes_current >= self.size_limit
IsBackpressured(current, limit) == current >= limit

\* Memory.tick
memory_tick(now) ==
    LET n == Min(Len(mst.inbox), Max(0, mcfg.max_issue_per_tick))
        taken == SubSeq(mst.inbox, 1, n)
        S == mem_issue_all([p |-> Pool, sem_in |-> sem_in, sem_sent |-> sem_sent,
                            inflight |-> mst.inflight], taken, now)
        nready == ReadyCount(S.inflight, now)
        emitted == [k \in 1..nready |-> S.inflight[k].msg]
        bytes_in == SumSize(taken)
        bytes_out == SumSize(emitted)
        fill == Min(bytes_in, mcfg.fill_rate)
        current1 == Min(mcfg.size_limit, mst.bytes_current + fill)
        drain == Min(Min(bytes_out, mcfg.drain_rate), current1)
        current2 == Max(0, current1 - drain)
    IN  [m |-> [inbox |-> SubSeq(mst.inbox, n + 1, Len(mst.inbox)),
                out |-> mst.out \o emitted,
                inflight |-> SubSeq(S.inflight, nready + 1, Len(S.inflight)),
                bytes_current |-> current2,
                bytes_in_tick |-> bytes_in,
                bytes_out_tick |-> bytes_out,
                backpressured |-> IsBackpressured(current2, mcfg.size_limit)],
         p |-> S.p, sem_in |-> S.sem_in, sem_sent |-> S.sem_sent]

MemTick ==
    /\ mst_phase = "tick"
    /\ LET R == memory_tick(mst_ticks)
       IN  /\ mst' = R.m
           /\ StorePool(R.p)
           /\ sem_in' = R.sem_in
           /\ sem_sent' = R.sem_sent
           /\ mchan_bp' = [k \in DOMAIN mchan_bp |-> R.m.backpressured]
    /\ mst_phase' = "done"
    /\ UNCHANGED <<mcfg, mst_ticks, mst_sent, mst_triggers>>
    /\ UNCHANGED <<sem_values, sem_waiters, sem_out, kvars, bvars, avars, ovars>>

\* The requests the generators send: data of some size from either, the
\* transfer of a buffer, the consumption of a buffer.
MemRequests ==
    [kind : {"data"}, size : 1..MaxSize, src : {"gen0", "gen1"}, buf_id : {0}]
    \cup [kind : {"buffer_transfer"}, size : {1}, src : {"gen0"}, buf_id : {2, 3}]
    \cup [kind : {"buffer_consume"}, size : {1}, src : {"gen0"}, buf_id : MemBufIds]

\* A link delivers a request to the memory's in-queue.
MemDeliver ==
    /\ mst_phase \in {"env", "done"}
    /\ mst_sent < MaxMemMsgs
    /\ \E req \in MemRequests : mst' = [mst EXCEPT !.inbox = Append(@, req)]
    /\ mst_sent' = mst_sent + 1
    /\ UNCHANGED <<mcfg, mchan_bp, mst_ticks, mst_phase, mst_triggers>>
    /\ UNCHANGED <<kvars, pvars, svars, bvars, avars, ovars>>

\* The rest of Simulator.tick: the link takes what the memory sent, ticks is
\* incremented and the pool makes its time update.
MemEndTick ==
    /\ mst_phase \in {"env", "done"}
    /\ mst_ticks < MaxMemTicks
    /\ mst' = [mst EXCEPT !.out = <<>>]
    /\ mst_ticks' = mst_ticks + 1
    /\ StorePool(pool_tick(Pool, mst_ticks + 1))
    /\ mst_phase' = "tick"
    /\ UNCHANGED <<mcfg, mchan_bp, mst_sent, mst_triggers>>
    /\ UNCHANGED <<kvars, svars, bvars, avars, ovars>>

\* The fill_rate and drain_rate values of the memories built: the
\* constructor takes any integer.
Rates == {0 - MaxRate, 0, MaxRate}

\* A Memory of some latency, size_limit and rates with two inbound channels
\* registered; buffer 1 is owned by the memory and buffer 2 by a generator,
\* each with a trigger that signals sem[1] when it is deallocated; a client
\* already waits on sem[1].
InitMem ==
    /\ mst = [inbox |-> <<>>, out |-> <<>>, inflight |-> <<>>, bytes_current |-> 0,
              bytes_in_tick |-> 0, bytes_out_tick |-> 0, backpressured |-> FALSE]
    /\ mcfg \in [latency : 0..MaxMstLat, max_issue_per_tick : {MaxIssuePerTick},
                 size_limit : 0..MaxLimit, fill_rate : Rates, drain_rate : Rates]
    /\ mchan_bp = <<FALSE, FALSE>>
    /\ mst_ticks = 0
    /\ mst_phase = "env"
    /\ mst_sent = 0
    /\ mst_triggers = [id \in MemBufIds |-> IF id = 3 THEN <<>> ELSE <<DeallocSignal>>]
    /\ LET P1 == pool_register(EmptyPool, 1, DataBuffer(1, None, "source", None, None),
                               MemName)
           P2 == pool_register(P1, 2, DataBuffer(1, None, "source", None, None), "gen0")
       IN  /\ pool_buffers = P2.buffers
           /\ pool_owner_of = P2.owner_of
           /\ pool_owned_by = P2.owned_by
           /\ pool_expected = P2.expected
           /\ pool_meta = P2.meta
           /\ pool_deleted = P2.deleted
    /\ sem_values = [i \in 1..SemCount |-> 0]
    /\ sem_waiters = [i \in 1..SemCount |-> IF i = 2 THEN <<[src |-> "c1", id |-> 0]>>
                                            ELSE <<>>]
    /\ sem_in = <<>>
    /\ sem_out = <<>>
    /\ sem_sent = 0
    /\ RestKernel /\ RestBuf /\ RestArb /\ RestNew

NextMem == MemTick \/ MemDeliver \/ MemEndTick \/ SemTick

SpecMem == InitMem /\ [][NextMem]_vars


(***************************************************************************)
(* Properties of the Memory (specification SpecMem).                       *)
(***************************************************************************)
\* C14: for a Memory with size_limit >= 0, whatever the request sizes, the
\* fill_rate and the drain_rate, 0 <= bytes_current <= size_limit after
\* every tick.
C14_OccupancyInRange ==
    mcfg.size_limit >= 0
    => 0 <= mst.bytes_current /\ mst.bytes_current <= mcfg.size_limit

\* Channel(name): bandwidth defaults to 128.
DefaultBandwidth == 128

\* current_bandwidth of the k-th registered inbound channel.
InboundBandwidth(k) ==
    current_bandwidth([backpressured |-> mchan_bp[k], bandwidth |-> DefaultBandwidth])

\* C15: after every Memory.tick, backpressured is true exactly when
\* bytes_current >= size_limit, and every registered inbound channel has
\* current_bandwidth 0 exactly when the memory is backpressured.
C15_BackpressureExact ==
    mst_phase = "done"
    => /\ mst.backpressured <=> (mst.bytes_current >= mcfg.size_limit)
       /\ \A k \in DOMAIN mchan_bp : (InboundBandwidth(k) = 0) <=> mst.backpressured

\* A tick has just filled a memory of positive size_limit up to its limit,
\* and the memory and its channels are backpressured.
C15_Witness ==
    /\ mst_phase = "done"
    /\ mcfg.size_limit > 0
    /\ mst.bytes_in_tick > 0
    /\ mst.bytes_current = mcfg.size_limit
    /\ mst.backpressured
    /\ InboundBandwidth(1) = 0 /\ InboundBandwidth(2) = 0

\* A step that is a call of Memory.tick.
IsMemTick == mst_phase = "tick" /\ mst_phase' = "done"

\* The request this Memory.tick processes is the buffer_consume of id.
Consumes(id) ==
    /\ mcfg.max_issue_per_tick = 1
    /\ mst.inbox # <<>>
    /\ Head(mst.inbox).kind = "buffer_consume"
    /\ Head(mst.inbox).buf_id = id

\* The memory owns the buffer id.
Owns(id) == id \in DOMAIN pool_buffers /\ pool_owner(Pool, id) = MemName

\* The number of sem_signal requests for sem[index] in the in-queue q.
Signals(q, index) ==
    Cardinality({k \in 1..Len(q) : q[k].kind = "sem_signal" /\ q[k].index = index})

\* C16: when the Memory processes the buffer_consume of a buffer it owns that
\* carries {on: deallocated, action: signal, station: sem, index: 1}, a
\* sem_signal for index 1 is delivered to the station's in-queue in that tick.
C16_ConsumeSignals ==
    [][\A id \in MemBufIds :
          (IsMemTick /\ Consumes(id) /\ Owns(id)
             /\ \E k \in 1..Len(mst_triggers[id]) : mst_triggers[id][k] = DeallocSignal)
          => Signals(sem_in', 1) = Signals(sem_in, 1) + 1]_vars

\* The pool after the step.
PoolNext == [buffers |-> pool_buffers', owner_of |-> pool_owner_of',
             owned_by |-> pool_owned_by', expected |-> pool_expected',
             meta |-> pool_meta', deleted |-> pool_deleted']

\* The buffer_freed responses of the memory m, in flight or sent.
Freed(m) ==
    Cardinality({k \in 1..Len(m.inflight) : m.inflight[k].msg.kind = "buffer_freed"})
    + Cardinality({k \in 1..Len(m.out) : m.out[k].kind = "buffer_freed"})

\* C17: processing buffer_consume(id) removes the buffer from the pool and
\* lowers bytes_owned(memory) by its size when the memory owns it, and
\* leaves the registry, the owners and the buffers' states as they were
\* otherwise; in both cases one buffer_freed is enqueued.
C17_ConsumeDeallocatesIffOwned ==
    [][\A id \in MemBufIds :
          (IsMemTick /\ Consumes(id))
          => /\ IF Owns(id)
                THEN /\ id \notin DOMAIN pool_buffers'
                     /\ pool_bytes_owned(PoolNext, MemName)
                          = pool_bytes_owned(Pool, MemName) - pool_buffers[id].size
                ELSE /\ pool_buffers' = pool_buffers
                     /\ pool_owner_of' = pool_owner_of
                     /\ pool_owned_by' = pool_owned_by
             /\ Freed(mst') = Freed(mst) + 1]_vars

\* The messages of the in-flight entries fl, in order.
Messages(fl) == [k \in 1..Len(fl) |-> fl[k].msg]

\* C38: a tick of the Memory takes at most max_issue_per_tick requests from
\* the front of `in`; each data request taken at tick t adds one resp of its
\* size addressed to its src behind the responses in flight; what the tick
\* puts on `out` is the front of that sequence, in order: the responses made
\* at tick t - latency and no other, and none of them stays behind.
C38_MemoryResponses ==
    [][IsMemTick =>
         LET n == Len(mst.inbox) - Len(mst'.inbox)
             taken == SubSeq(mst.inbox, 1, n)
             emitted == SubSeq(mst'.out, Len(mst.out) + 1, Len(mst'.out))
             flow == emitted \o Messages(mst'.inflight)
             before == Len(mst.inflight)
         IN  /\ n \in 0..mcfg.max_issue_per_tick
             /\ mst'.inbox = SubSeq(mst.inbox, n + 1, Len(mst.inbox))
             /\ Len(flow) = before + n
             /\ SubSeq(flow, 1, before) = Messages(mst.inflight)
             /\ \A k \in 1..n :
                   taken[k].kind = "data" =>
                      flow[before + k] = [kind |-> "resp", src |-> MemName,
                                          dst |-> taken[k].src, size |-> taken[k].size,
                                          buf_id |-> 0, created_at |-> mst_ticks]
             /\ \A k \in 1..Len(emitted) :
                   emitted[k].created_at + mcfg.latency = mst_ticks
             /\ \A k \in 1..Len(mst'.inflight) :
                   mst'.inflight[k].msg.created_at + mcfg.latency > mst_ticks]_vars

\* A memory of latency 1 has put the response to a data request of size 2 on
\* `out` one tick after the request, while the response to a later request
\* is in flight.
C38_Witness ==
    /\ mcfg.latency = 1
    /\ mst_phase = "done"
    /\ \E k \in 1..Len(mst.out) :
          /\ mst.out[k].kind = "resp" /\ mst.out[k].size = 2
          /\ mst.out[k].created_at = mst_ticks - 1
    /\ \E k \in 1..Len(mst.inflight) :
          mst.inflight[k].msg.kind = "resp" /\ mst.inflight[k].msg.dst = "gen1"


(***************************************************************************)
(* Delivery to a port by name (SpecRoute): Simulator.deliver and           *)
(* Resource.in_queue.  The topology is                                     *)
(*     relay = Resource("relay"); relay.add_port("p")                      *)
(*     memory = Memory("memory", latency=0, max_issue_per_tick=1)          *)
(*     links = [Link(relay, "p", memory, dst_port, bandwidth=1, latency=0),*)
(*              connect(memory, "out", relay, "resp", 1, 0)]               *)
(* where the first link is built by hand, so that its dst_port need not be *)
(* a port of the memory.  Every message has size 1.                        *)
(***************************************************************************)
RouteResources == <<"relay", "memory">>
RouteNames == {RouteResources[k] : k \in 1..Len(RouteResources)}

\* The ports each resource has once the topology is built.
BuiltIn(r) == IF r = "relay" THEN {"p", "resp"} ELSE {"in"}
BuiltOut(r) == IF r = "relay" THEN {"p"} ELSE {"out"}

\* Resource.in_queue: dict.setdefault(port, deque()).
in_queue(inbox_of_r, port) ==
    IF port \in DOMAIN inbox_of_r THEN inbox_of_r ELSE Put(inbox_of_r, port, <<>>)

\* Simulator.deliver(resource, port, msg)
deliver(R, r, port, msg) ==
    [R EXCEPT !.inbox[r] = [in_queue(@, port) EXCEPT ![port] = Append(@, msg)]]

RECURSIVE deliver_all(_, _, _, _)
deliver_all(R, r, port, msgs) ==
    IF msgs = <<>> THEN R
    ELSE deliver_all(deliver(R, r, port, Head(msgs)), r, port, Tail(msgs))

\* Resource.tick and Resource.on_receive: every in-queue is drained, and a
\* message goes to the out-queue of the same name if there is one.
resource_tick(R, r) ==
    [R EXCEPT !.inbox[r] = [q \in DOMAIN @ |-> <<>>],
              !.outbox[r] = [q \in DOMAIN @ |->
                               @[q] \o Get(R.inbox[r], q, <<>>)]]

\* Memory.tick with latency 0 and max_issue_per_tick 1, as far as the queues
\* go: one request leaves inbox["in"] and its response, ready at once, is
\* sent on "out".
route_memory_tick(R, r) ==
    LET inq == R.inbox[r]["in"]
    IN  IF inq = <<>> THEN R
        ELSE [R EXCEPT !.inbox[r]["in"] = Tail(inq),
                       !.outbox[r]["out"] =
                            Append(@, Message(R.next_id, r, Head(inq).src, Head(inq).size,
                                              "resp", R.ticks, Head(inq).id)),
                       !.next_id = @ + 1]

\* Link.tick of a link of latency 0 and bandwidth 1 from (src, src_port) to
\* (dst, dst_port).
route_link_tick(R, src, src_port, dst, dst_port) ==
    LET outq == Get(R.outbox[src], src_port, <<>>)
        n == PullCount(outq, 1)
        R1 == IF src_port \in DOMAIN R.outbox[src]
              THEN [R EXCEPT !.outbox[src][src_port] = SubSeq(outq, n + 1, Len(outq))]
              ELSE R
    IN  deliver_all(R1, dst, dst_port, SubSeq(outq, 1, n))

\* The messages the hand-built link delivers in the tick that starts in R.
route_link_pulled(R) ==
    LET R2 == route_memory_tick(resource_tick(R, "relay"), "memory")
        outq == R2.outbox["relay"]["p"]
    IN  SubSeq(outq, 1, PullCount(outq, 1))

\* Simulator.tick
route_tick(R) ==
    LET R1 == resource_tick(R, "relay")
        R2 == route_memory_tick(R1, "memory")
        R3 == route_link_tick(R2, "relay", "p", "memory", rt_cfg.dst_port)
        R4 == route_link_tick(R3, "memory", "out", "relay", "resp")
    IN  [R4 EXCEPT !.ticks = @ + 1]

\* Simulator.is_quiescent; the links have latency 0 and hold nothing.
route_is_quiescent(R) ==
    \A r \in RouteNames :
        /\ \A q \in DOMAIN R.inbox[r] : R.inbox[r][q] = <<>>
        /\ \A q \in DOMAIN R.outbox[r] : R.outbox[r][q] = <<>>

\* sim.deliver(resource, port, msg) called from outside, with a port name
\* that may be none of the resource's.
RouteDeliver ==
    /\ rt.next_id <= MaxRouteMsgs
    /\ \E r \in RouteNames, port \in {"p", "in", "bogus"} :
          /\ rt' = [deliver(rt, r, port,
                            Message(rt.next_id, "driver", r, 1, "data", rt.ticks, 0))
                       EXCEPT !.next_id = @ + 1]
          /\ rt_misrouted' = IF port \in BuiltIn(r) THEN rt_misrouted
                             ELSE rt_misrouted \cup {rt.next_id}
    /\ UNCHANGED rt_cfg
    /\ UNCHANGED <<kvars, pvars, svars, bvars, avars, mvars, cvars, dvars, busvars,
                   tvars, fvars,
                   nvars>>

RouteTick ==
    /\ rt.ticks < MaxRouteTicks
    /\ rt' = route_tick(rt)
    /\ rt_misrouted' = IF rt_cfg.dst_port \in BuiltIn("memory") THEN rt_misrouted
                       ELSE rt_misrouted
                            \cup {route_link_pulled(rt)[k].id :
                                     k \in 1..Len(route_link_pulled(rt))}
    /\ UNCHANGED rt_cfg
    /\ UNCHANGED <<kvars, pvars, svars, bvars, avars, mvars, cvars, dvars, busvars,
                   tvars, fvars,
                   nvars>>

\* The topology as built, before the first tick.
InitRoute ==
    /\ rt = [inbox |-> [r \in RouteNames |-> [q \in BuiltIn(r) |-> <<>>]],
             outbox |-> [r \in RouteNames |-> [q \in BuiltOut(r) |-> <<>>]],
             ticks |-> 0, next_id |-> 1]
    /\ rt_cfg \in {[dst_port |-> q] : q \in {"in", "req"}}
    /\ rt_misrouted = {}
    /\ RestKernel /\ RestPool /\ RestSem /\ RestBuf /\ RestArb /\ RestMem /\ RestCall
    /\ RestDict /\ RestBus /\ RestTrig /\ RestXfer /\ RestLate

NextRoute == RouteDeliver \/ RouteTick

SpecRoute == InitRoute /\ [][NextRoute]_vars

(***************************************************************************)
(* Properties of delivery by port name (specification SpecRoute).          *)
(***************************************************************************)
\* The ids of the messages held in the in- and out-queues of the resources.
RouteHeld ==
    LET ids(q) == {q[k].id : k \in 1..Len(q)}
        held(boxes) == UNION {ids(boxes[q]) : q \in DOMAIN boxes}
    IN  UNION {held(rt.inbox[r]) \cup held(rt.outbox[r]) : r \in RouteNames}

\* C22: a message delivered, by Simulator.deliver or by a link, to a port
\* that the destination resource does not have is dropped: it is held in no
\* queue of any resource, no resource gets a new port, and is_quiescent() is
\* false only when a queue holds a message that was routed to a real port.
C22_MisroutedIsDropped ==
    /\ RouteHeld \cap rt_misrouted = {}
    /\ \A r \in RouteNames : /\ DOMAIN rt.inbox[r] = BuiltIn(r)
                              /\ DOMAIN rt.outbox[r] = BuiltOut(r)
    /\ route_is_quiescent(rt) \/ RouteHeld \ rt_misrouted # {}

(***************************************************************************)
(* DataBuffer.to_dict and from_dict (core/databuffer.py, SpecDict).  A     *)
(* Python value is a record [t, s, n]: its type, and its text or number.   *)
(***************************************************************************)
PyNone == [t |-> "none", s |-> "", n |-> 0]
PyStr(s) == [t |-> "str", s |-> s, n |-> 0]
PyInt(n) == [t |-> "int", s |-> "", n |-> n]
PyBytes(s) == [t |-> "bytes", s |-> s, n |-> 0]
PyRaise == [t |-> "raise", s |-> "", n |-> 0]

\* str(x)
py_str(x) ==
    IF x.t = "str" THEN x
    ELSE IF x.t = "none" THEN PyStr("None")
    ELSE IF x.t = "int" THEN PyStr(ToString(x.n))
    ELSE PyStr("b'" \o x.s \o "'")

\* int(x): the number itself, the number a text of one digit spells, and
\* an exception for anything else.
py_int(x) ==
    IF x.t = "int" THEN x
    ELSE IF x.t = "str" /\ \E k \in 0..9 : x.s = ToString(k)
         THEN PyInt(CHOOSE k \in 0..9 : x.s = ToString(k))
    ELSE PyRaise

\* bool(x) of a text or None
py_truthy(x) == x.t \notin {"none"} /\ ~(x.t = "str" /\ x.s = "")

\* f"buf-{uuid4().hex[:8]}": some id never seen before.
FreshBufIds == {PyStr("buf-new")}

\* os.urandom(size): some bytes.
RandomContents == {PyBytes("r1"), PyBytes("r2")}

\* to_dict: triggers is a copy of the list, [] for an empty one.
to_dict(b) ==
    [id |-> b.id, size |-> b.size, content |-> b.content, state |-> b.state,
     owner_memory |-> b.owner_memory, role |-> b.role,
     destination_pe |-> b.destination_pe,
     destination_queue |-> b.destination_queue,
     bytes_received |-> b.bytes_received, bytes_sent |-> b.bytes_sent,
     triggers |-> IF b.triggers # <<>> THEN b.triggers ELSE <<>>]

\* from_dict reading a counter with the default of the dataclass instead.
from_dict_counter_default(d, key) == PyInt(0)

\* int(d.get(key, 0)) for a key that d has
from_dict_counter(d, key) == py_int(d[key])

\* from_dict: the buffers it can return, or the outcome of an exception.
\* DataBuffer(size, content, id) is built first (a size <= 0 raises, a
\* missing content is drawn at random, an empty id is replaced by a fresh
\* one), then each key that d has is copied.
from_dict(d) ==
    LET size == py_int(d.size)
        received == from_dict_counter(d, "bytes_received")
        sent == from_dict_counter(d, "bytes_sent")
        ids == IF py_truthy(d.id) THEN {d.id} ELSE FreshBufIds
        contents == IF d.content.t = "none" THEN RandomContents ELSE {d.content}
    IN  IF size.t = "raise" \/ received.t = "raise" \/ sent.t = "raise"
        THEN {[raised |-> TRUE, buf |-> EmptyMap]}
        ELSE IF size.n <= 0
        THEN {[raised |-> TRUE, buf |-> EmptyMap]}
        ELSE {[raised |-> FALSE,
               buf |-> [id |-> i, size |-> size, content |-> c,
                        state |-> py_str(d.state),
                        owner_memory |-> d.owner_memory,
                        role |-> py_str(d.role),
                        destination_pe |-> d.destination_pe,
                        destination_queue |-> d.destination_queue,
                        bytes_received |-> received, bytes_sent |-> sent,
                        triggers |-> d.triggers]] : i \in ids, c \in contents}

\* The DataBuffers that are serialized: every field within its declared
\* type, the id empty or not.
DictBuffers ==
    [id : {PyStr(""), PyStr("buf-1")},
     size : {PyInt(n) : n \in 1..MaxDictSize},
     content : {PyBytes(""), PyBytes("ab")},
     state : {PyStr("allocated"), PyStr("transit"), PyStr("None")},
     owner_memory : {PyNone, PyStr("m1")},
     role : {PyStr("source"), PyStr("destination")},
     destination_pe : {PyNone, PyStr("pe0")},
     destination_queue : {PyNone, PyStr("in0")},
     bytes_received : {PyInt(n) : n \in {-1, 0, MaxDictBytes}},
     bytes_sent : {PyInt(n) : n \in {0, MaxDictBytes}},
     triggers : {<<>>, <<DeallocSignal>>}]

ToDict ==
    /\ db_phase = "new"
    /\ db_dict' = to_dict(db)
    /\ db_phase' = "dict"
    /\ UNCHANGED <<db, db_back>>
    /\ UNCHANGED <<kvars, pvars, svars, bvars, avars, mvars, cvars, rvars, busvars,
                   tvars, fvars,
                   nvars>>

FromDict ==
    /\ db_phase = "dict"
    /\ db_back' \in from_dict(db_dict)
    /\ db_phase' = "back"
    /\ UNCHANGED <<db, db_dict>>
    /\ UNCHANGED <<kvars, pvars, svars, bvars, avars, mvars, cvars, rvars, busvars,
                   tvars, fvars,
                   nvars>>

InitDict ==
    /\ db \in DictBuffers
    /\ db_dict = EmptyMap
    /\ db_back = [raised |-> FALSE, buf |-> EmptyMap]
    /\ db_phase = "new"
    /\ RestKernel /\ RestPool /\ RestSem /\ RestBuf /\ RestArb /\ RestMem /\ RestCall
    /\ RestRoute /\ RestBus /\ RestTrig /\ RestXfer /\ RestLate

NextDict == ToDict \/ FromDict

SpecDict == InitDict /\ [][NextDict]_vars

TotalRequests == 50
RequestSize == 64
ReadRequestLatency == 5
DataResponseLatency == 5
DataResponseBandwidth == 128
BusMemLatency == 10
BusLinkBandwidth == 128
RunTicks == 300

BusLinks ==
    << [src |-> "cpu0.out", dst |-> "rbus.in_cpu0", bandwidth |-> BusLinkBandwidth,
        latency |-> 1],
       [src |-> "rbus.out_req", dst |-> "memory.in", bandwidth |-> BusLinkBandwidth,
        latency |-> 1],
       [src |-> "memory.out", dst |-> "rbus.in_mem_resp", bandwidth |-> BusLinkBandwidth,
        latency |-> 1],
       [src |-> "rbus.out_cpu0", dst |-> "cpu0.in", bandwidth |-> BusLinkBandwidth,
        latency |-> 0] >>

\* The in-queues and the out-queues of the three resources as built.
BusInQueues == {"cpu0.in", "cpu0.cmd", "rbus.in_cpu0", "rbus.in_mem_resp", "memory.in"}
BusOutQueues == {"cpu0.out", "rbus.out_req", "rbus.out_cpu0", "memory.out"}

\* ComputeUnit.tick with produce_buffers off: responses are counted, and a
\* request is issued when the quota and the interval allow.
compute_tick(S) ==
    LET inq == S.q["cpu0.in"]
        got == Len(SelectSeq(inq, LAMBDA x : x.kind = "resp"))
        issue == /\ S.cpu.issued < TotalRequests
                 /\ S.ticks - S.cpu.last_issue_tick >= Max(1, IssueInterval)
        req == Message(S.next_id, "cpu0", "memory", RequestSize, "read", S.ticks, 0)
        S1 == [S EXCEPT !.q["cpu0.in"] = <<>>, !.cpu.received = @ + got]
    IN  IF issue
        THEN [S1 EXCEPT !.q["cpu0.out"] = Append(@, req),
                        !.cpu.issued = @ + 1,
                        !.cpu.last_issue_tick = S.ticks,
                        !.next_id = @ + 1]
        ELSE S1

\* The pipeline of a bus after a tick: the last stage kept rest, every
\* stage moved on by one, and stage 0 accepted the messages of accepted.
shift_pipeline(stages, rest, accepted) ==
    LET N == Len(stages)
    IN  [k \in 1..N |->
            (IF k = N THEN rest ELSE <<>>)
            \o (IF k > 1 THEN stages[k - 1] ELSE <<>>)
            \o (IF k = 1 THEN accepted ELSE <<>>)]

\* The out port a response is sent to, with every response sent to the
\* port of an unknown destination.
resp_out_port_unknown(msg) == "rbus.out_unknown"

\* f"out_{dst}"
resp_out_port(msg) == "rbus.out_" \o msg.dst

\* send(out_port, msg) for each message, adding the port when missing.
RECURSIVE bus_send_all(_, _)
bus_send_all(Q, msgs) ==
    IF msgs = <<>> THEN Q
    ELSE LET port == resp_out_port(Head(msgs))
         IN  bus_send_all(Put(Q, port, Append(Get(Q, port, <<>>), Head(msgs))),
                          Tail(msgs))

\* ReadBus.tick with the one requester cpu0: responses leave the last stage
\* within the response bandwidth, requests leave theirs without limit, and
\* the round robin accepts one request of each requester.
read_bus_tick(S) ==
    LET last == S.bus.resp_pipeline[Len(S.bus.resp_pipeline)]
        n == PullCount(last, DataResponseBandwidth)
        Q1 == bus_send_all(S.q, SubSeq(last, 1, n))
        resp1 == shift_pipeline(S.bus.resp_pipeline, SubSeq(last, n + 1, Len(last)),
                                Q1["rbus.in_mem_resp"])
        Q2 == [Q1 EXCEPT !["rbus.in_mem_resp"] = <<>>]
        lastreq == S.bus.req_pipeline[Len(S.bus.req_pipeline)]
        Q3 == [Q2 EXCEPT !["rbus.out_req"] = @ \o lastreq]
        inq == Q3["rbus.in_cpu0"]
        k == Min(1, Len(inq))
        req1 == shift_pipeline(S.bus.req_pipeline, <<>>, SubSeq(inq, 1, k))
        Q4 == [Q3 EXCEPT !["rbus.in_cpu0"] = SubSeq(inq, k + 1, Len(inq))]
    IN  [S EXCEPT !.q = Q4,
                  !.bus = [resp_pipeline |-> resp1, req_pipeline |-> req1,
                           rr_idx |-> (S.bus.rr_idx + 1) % 1]]

\* Memory.tick for read requests, with the default size limit and rates.
bus_memory_tick(S) ==
    LET inq == S.q["memory.in"]
        n == Min(Len(inq), MaxIssuePerTick)
        taken == SubSeq(inq, 1, n)
        resp(k) == [ready_tick |-> S.ticks + Max(0, BusMemLatency),
                    msg |-> Message(S.next_id + k - 1, "memory", taken[k].src,
                                    taken[k].size, "resp", S.ticks, taken[k].id)]
        inflight1 == S.mem.inflight \o [k \in 1..n |-> resp(k)]
        nready == ReadyCount(inflight1, S.ticks)
        emitted == [k \in 1..nready |-> inflight1[k].msg]
        fill == Min(SumSize(taken), DefaultFillRate)
        current1 == Min(DefaultSizeLimit, S.mem.bytes_current + fill)
        drain == Min(Min(SumSize(emitted), DefaultDrainRate), current1)
        current2 == Max(0, current1 - drain)
    IN  [S EXCEPT !.q["memory.in"] = SubSeq(inq, n + 1, Len(inq)),
                  !.q["memory.out"] = @ \o emitted,
                  !.mem = [inflight |-> SubSeq(inflight1, nready + 1, Len(inflight1)),
                           bytes_current |-> current2,
                           bytes_in_tick |-> SumSize(taken),
                           bytes_out_tick |-> SumSize(emitted),
                           backpressured |-> current2 >= DefaultSizeLimit],
                  !.next_id = @ + n]

\* Link.tick of link l.
bus_link_tick(S, l) ==
    LET L == BusLinks[l]
        pipe == S.pipeline[l]
        outq == S.q[L.src]
        n == PullCount(outq, L.bandwidth)
        pulled == SubSeq(outq, 1, n)
        delivered == IF L.latency >= 1 THEN pipe[Len(pipe)] ELSE pulled
        S1 == [S EXCEPT !.q[L.src] = SubSeq(outq, n + 1, Len(outq))]
    IN  [S1 EXCEPT !.q[L.dst] = @ \o delivered,
                   !.pipeline[l] = IF L.latency >= 1
                                   THEN <<pulled>> \o SubSeq(pipe, 1, Len(pipe) - 1)
                                   ELSE pipe,
                   !.metrics.messages_delivered = @ + Len(delivered),
                   !.metrics.bytes_transferred = @ + SumSize(delivered)]

RECURSIVE bus_links_tick(_, _)
bus_links_tick(S, l) ==
    IF l > Len(BusLinks) THEN S ELSE bus_links_tick(bus_link_tick(S, l), l + 1)

\* Simulator.tick: the resources in the order they were added, the links in
\* the order they were connected, the counter, and finalize_tick of the
\* ComputeUnit; no buffer is in the pool.
bus_sim_tick(S) ==
    LET S1 == bus_links_tick(bus_memory_tick(read_bus_tick(compute_tick(S))), 1)
    IN  [S1 EXCEPT !.ticks = @ + 1, !.metrics.ticks = S1.ticks + 1,
                   !.cpu.pe_ticks = @ + 1]

\* One iteration of the loop of sim.run(max_ticks=300).
BusTick ==
    /\ sb.ticks < RunTicks
    /\ sb' = bus_sim_tick(sb)
    /\ UNCHANGED <<kvars, pvars, svars, bvars, avars, mvars, cvars, rvars, dvars,
                   tvars, fvars,
                   nvars>>

\* The simulator that build() returns.
InitBus ==
    /\ sb = [ticks |-> 0,
             metrics |-> [ticks |-> 0, messages_delivered |-> 0, bytes_transferred |-> 0],
             q |-> [x \in BusInQueues \cup BusOutQueues |-> <<>>],
             pipeline |-> [l \in 1..Len(BusLinks) |->
                             [i \in 1..NumStages(BusLinks[l].latency) |-> <<>>]],
             cpu |-> [issued |-> 0, received |-> 0, last_issue_tick |-> NeverIssued,
                      pe_ticks |-> 0],
             bus |-> [resp_pipeline |-> [i \in 1..Max(1, DataResponseLatency) |-> <<>>],
                      req_pipeline |-> [i \in 1..Max(1, ReadRequestLatency) |-> <<>>],
                      rr_idx |-> 0],
             mem |-> [inflight |-> <<>>, bytes_current |-> 0, bytes_in_tick |-> 0,
                      bytes_out_tick |-> 0, backpressured |-> FALSE],
             next_id |-> 1]
    /\ RestKernel /\ RestPool /\ RestSem /\ RestBuf /\ RestArb /\ RestMem /\ RestCall
    /\ RestRoute /\ RestDict /\ RestTrig /\ RestXfer /\ RestLate

NextBus == BusTick

SpecBus == InitBus /\ [][NextBus]_vars

(***************************************************************************)
(* Properties of the simple-read run (specification SpecBus).              *)
(***************************************************************************)
\* C24: in the simple-read topology received <= issued <= total_requests at
\* every tick, and when run(max_ticks=300) returns the compute unit has
\* issued and received all 50 requests and at least 100 messages were
\* delivered by links.
C24_SimpleReadCompletes ==
    /\ sb.cpu.received <= sb.cpu.issued
    /\ sb.cpu.issued <= TotalRequests
    /\ sb.ticks = RunTicks =>
          /\ sb.cpu.issued = TotalRequests
          /\ sb.cpu.received = TotalRequests
          /\ sb.metrics.messages_delivered >= 2 * TotalRequests

\* The run is over with every request answered.
C24_Witness ==
    /\ sb.ticks = RunTicks
    /\ sb.cpu.issued = TotalRequests
    /\ sb.cpu.received = TotalRequests

(***************************************************************************)
(* BufferPool.set_triggers, add_trigger and set_state (SpecTrig).  The     *)
(* pool holds buffer 1; id 2 is unknown to it.  A trigger is a dict whose  *)
(* values are Python values; the topology has the resources "sem" and      *)
(* "memory".                                                               *)
(***************************************************************************)
TrigBufIds == {1, 2}
TopoResources == {"sem", "memory"}
TrigStates == {"arrived", "deallocated"}

\* The trigger dicts handed to the pool or attached to a buffer.
Triggers ==
    [on : {PyStr(s) : s \in TrigStates},
     action : {PyStr("signal"), PyStr("wait")},
     station : {PyStr("sem"), PyStr("nowhere")},
     index : {PyInt(0), PyStr("1"), PyNone}]

\* The message of one trigger when the buffer enters state, as a sequence:
\* empty when the trigger does not match, when int(index) raises or when
\* the station is not a resource of the topology.
trigger_message(t, id, state) ==
    LET on == py_str(t.on)
        action == py_str(t.action)
        station == py_str(t.station)
        index == py_int(t.index)
    IN  IF on.s # state \/ index.t = "raise" \/ station.s \notin TopoResources
        THEN <<>>
        ELSE << [kind |-> IF action.s = "signal" THEN "sem_signal" ELSE "sem_wait",
                 src |-> "buffer_pool", dst |-> station.s, index |-> index.n,
                 buffer_id |-> id, state |-> state] >>

RECURSIVE trigger_messages(_, _, _)
trigger_messages(trig_list, id, state) ==
    IF trig_list = <<>> THEN <<>>
    ELSE trigger_message(Head(trig_list), id, state)
         \o trigger_messages(Tail(trig_list), id, state)

\* The trigger list set_state walks: the pool's, then the buffer's own.
trig_list_of(T, id) == Get(T.pool, id, <<>>) \o Get(T.own, id, <<>>)

\* sim.deliver(target, "in", msg) for each message, in order.
RECURSIVE deliver_in(_, _)
deliver_in(inq, msgs) ==
    IF msgs = <<>> THEN inq
    ELSE deliver_in([inq EXCEPT ![Head(msgs).dst] = Append(@, Head(msgs))], Tail(msgs))

\* set_state(sim, id, state) on the pool P with the triggers T: the pool
\* and the in-queues afterwards.
set_state_triggers(P, T, id, state) ==
    IF id \notin DOMAIN P.buffers THEN [p |-> P, inq |-> T.inq]
    ELSE [p |-> pool_set_state(P, id, state),
          inq |-> deliver_in(T.inq, trigger_messages(trig_list_of(T, id), id, state))]

\* add_trigger(id, trigger)
TrigAdd ==
    /\ \E id \in TrigBufIds, t \in Triggers :
          /\ Len(Get(tg.pool, id, <<>>)) < MaxTrigs
          /\ tg' = [tg EXCEPT !.pool = Put(@, id, Append(Get(@, id, <<>>), t))]
    /\ UNCHANGED <<kvars, pvars, svars, bvars, avars, mvars, cvars, rvars, dvars, busvars,
                   fvars,
                   nvars>>

\* set_triggers(id, []): the triggers registered for id are replaced.
TrigSet ==
    /\ \E id \in TrigBufIds :
          /\ id \in DOMAIN tg.pool
          /\ tg' = [tg EXCEPT !.pool = Put(@, id, <<>>)]
    /\ UNCHANGED <<kvars, pvars, svars, bvars, avars, mvars, cvars, rvars, dvars, busvars,
                   fvars,
                   nvars>>

\* set_state(sim, id, state)
TrigSetState ==
    /\ tg.calls < MaxTrigCalls
    /\ \E id \in TrigBufIds, state \in TrigStates :
          LET R == set_state_triggers(Pool, tg, id, state)
          IN  /\ StorePool(R.p)
              /\ tg' = [tg EXCEPT !.inq = R.inq, !.calls = @ + 1,
                                  !.last = [id |-> id, state |-> state]]
    /\ UNCHANGED <<kvars, svars, bvars, avars, mvars, cvars, rvars, dvars, busvars,
                   fvars,
                   nvars>>

\* Buffer 1 was registered with some triggers of its own, or none.
InitTrig ==
    /\ \E own \in {<<>>} \cup {<<t>> : t \in Triggers} :
          tg = [pool |-> EmptyMap, own |-> [id \in {1} |-> own],
                inq |-> [r \in TopoResources |-> <<>>], calls |-> 0,
                last |-> [id |-> 0, state |-> "none"]]
    /\ LET P == pool_register(EmptyPool, 1, DataBuffer(1, None, "source", None, None),
                              "memory")
       IN  /\ pool_buffers = P.buffers
           /\ pool_owner_of = P.owner_of
           /\ pool_owned_by = P.owned_by
           /\ pool_expected = P.expected
           /\ pool_meta = P.meta
           /\ pool_deleted = P.deleted
    /\ RestKernel /\ RestSem /\ RestBuf /\ RestArb /\ RestMem /\ RestCall
    /\ RestRoute /\ RestDict /\ RestBus /\ RestXfer /\ RestLate

NextTrig == TrigAdd \/ TrigSet \/ TrigSetState

SpecTrig == InitTrig /\ [][NextTrig]_vars

(***************************************************************************)
(* Properties of set_state (specification SpecTrig).                       *)
(***************************************************************************)
\* The messages the claim expects at station r from the triggers of
\* trig_list when buffer id enters state: one per trigger whose on is the
\* state, whose station is r and whose index is an integer.
ExpectedAt(r, trig_list, id, state) ==
    LET hit == SelectSeq(trig_list, LAMBDA t : /\ t.on = PyStr(state)
                                               /\ t.station = PyStr(r)
                                               /\ t.index.t = "int")
    IN  [k \in 1..Len(hit) |->
            [kind |-> IF hit[k].action = PyStr("signal") THEN "sem_signal" ELSE "sem_wait",
             src |-> "buffer_pool", dst |-> r, index |-> hit[k].index.n,
             buffer_id |-> id, state |-> state]]

\* C29: set_state(sim, id, s) on a registered buffer writes state s and
\* appends to the in-queue of each resource of the topology exactly one
\* semaphore message per trigger with on = s naming it, sem_signal for the
\* action signal and sem_wait for wait, with payload index, buffer_id and
\* state, the pool's triggers first and the buffer's own after them; a
\* trigger with another on-state, an unknown station or an index that is
\* not an integer delivers nothing; on an unknown id nothing changes.
C29_SetStateFiresTriggers ==
    [][tg'.calls = tg.calls + 1 =>
         LET id == tg'.last.id
             s == tg'.last.state
         IN  IF id \in DOMAIN pool_buffers
             THEN /\ pool_buffers'[id].state = s
                  /\ DOMAIN tg'.inq = TopoResources
                  /\ \A r \in TopoResources :
                        tg'.inq[r] = tg.inq[r]
                            \o ExpectedAt(r, Get(tg.pool, id, <<>>) \o Get(tg.own, id, <<>>),
                                          id, s)
             ELSE /\ tg'.inq = tg.inq
                  /\ pool_buffers' = pool_buffers
                  /\ pool_owner_of' = pool_owner_of
                  /\ pool_owned_by' = pool_owned_by]_vars

(***************************************************************************)
(* Scheduled transfers and their arrival (SpecXfer): schedule_transfer,    *)
(* record_expected_arrival and BufferPool.tick within Simulator.tick.  A   *)
(* tick lets the resources act (an output queue schedules the transfer of  *)
(* a buffer it holds; an output queue or the arbiter records or moves the  *)
(* expected arrival of a transfer under way), then increments sim.ticks    *)
(* and runs the pool phase.  The topology has the resource "pe".           *)
(***************************************************************************)
XferResources == {"pe"}
XferQueues == {"in0", "in1"}

\* One iteration of the loop of BufferPool.tick for the due buffer bid,
\* with the queues of the destination PE.  R holds the pool, the input
\* queues and the log of arrivals and deallocations.
xfer_arrive(R, bid) ==
    LET P == R.p
        known == bid \in DOMAIN P.buffers
        has_meta == bid \in DOMAIN P.meta
        tracked == has_meta /\ P.meta[bid].source_id \in DOMAIN P.buffers
        P2 == pool_arrive(P, bid)
        dest_pe == IF has_meta THEN P.meta[bid].destination_pe ELSE None
        dest_queue == IF has_meta THEN P.meta[bid].destination_queue ELSE "in0"
        item == IF bid \in DOMAIN P2.buffers THEN bid ELSE 0
    IN  [p |-> P2,
         pe_in |-> IF dest_pe \in XferResources
                   THEN [R.pe_in EXCEPT ![dest_pe] =
                            Put(@, dest_queue, Append(Get(@, dest_queue, <<>>), item))]
                   ELSE R.pe_in,
         arrived |-> IF known THEN Append(R.arrived, bid) ELSE R.arrived,
         dealloc |-> IF tracked THEN R.dealloc \cup {P.meta[bid].source_id}
                     ELSE R.dealloc]

RECURSIVE xfer_arrive_all(_, _)
xfer_arrive_all(R, due) ==
    IF due = <<>> THEN R ELSE xfer_arrive_all(xfer_arrive(R, Head(due)), Tail(due))

\* The due list with the comparison against sim.ticks made strict.
xfer_due_strict(P, now) == SelectSeq(P.expected, LAMBDA e : e.tick < now)

xfer_due(P, now) == pool_due(P, now)

\* BufferPool.tick(sim)
xfer_pool_tick(R, now) ==
    LET due == xfer_due(R.p, now)
    IN  xfer_arrive_all(R, [k \in 1..Len(due) |-> due[k].id])

\* OutputQueue.step schedules the transfer of the buffer at its head.
XferSchedule ==
    /\ xf.ticks < MaxXferTicks
    /\ xf.next <= MaxXferBufs
    /\ \E src \in DOMAIN pool_buffers, dst_pe \in {None, "pe", "ghost"}, dst_q \in XferQueues :
          /\ pool_buffers[src].state # "transit"
          /\ StorePool(pool_schedule_transfer(Pool, src, xf.next, "dstmem", dst_pe, dst_q))
    /\ xf' = [xf EXCEPT !.phase = "resources", !.next = @ + 1,
                        !.active = @ \cup {xf.next}]
    /\ UNCHANGED <<kvars, svars, bvars, avars, mvars, cvars, rvars, dvars, busvars, tvars,
                   nvars>>

\* record_expected_arrival(id, tick) for the destination buffer of a
\* transfer under way (OutputQueue._dest_map, ArbiterStation._active).
XferRecord ==
    /\ xf.ticks < MaxXferTicks
    /\ \E id \in xf.active, lat \in 0..MaxXferLat :
          /\ StorePool(pool_record_expected_arrival(Pool, id, xf.ticks + lat))
    /\ xf' = [xf EXCEPT !.phase = "resources"]
    /\ UNCHANGED <<kvars, svars, bvars, avars, mvars, cvars, rvars, dvars, busvars, tvars,
                   nvars>>

\* The end of Simulator.tick: sim.ticks += 1, then the pool phase.
XferPool ==
    /\ xf.ticks < MaxXferTicks
    /\ LET R == xfer_pool_tick([p |-> Pool, pe_in |-> xf.pe_in, arrived |-> xf.arrived,
                                dealloc |-> xf.dealloc], xf.ticks + 1)
       IN  /\ StorePool(R.p)
           /\ xf' = [xf EXCEPT !.ticks = @ + 1, !.phase = "end", !.pe_in = R.pe_in,
                               !.arrived = R.arrived, !.dealloc = R.dealloc,
                               !.active = @ \ {R.arrived[k] : k \in 1..Len(R.arrived)}]
    /\ UNCHANGED <<kvars, svars, bvars, avars, mvars, cvars, rvars, dvars, busvars, tvars,
                   nvars>>

\* The pool holds the source buffer 1; no tick has run.
InitXfer ==
    /\ xf = [ticks |-> 0, phase |-> "end", pe_in |-> [r \in XferResources |-> EmptyMap],
             arrived |-> <<>>, dealloc |-> {}, next |-> 2, active |-> {}]
    /\ LET P == pool_register(EmptyPool, 1, DataBuffer(1, None, "source", None, None),
                              "memory")
       IN  /\ pool_buffers = P.buffers
           /\ pool_owner_of = P.owner_of
           /\ pool_owned_by = P.owned_by
           /\ pool_expected = P.expected
           /\ pool_meta = P.meta
           /\ pool_deleted = P.deleted
    /\ RestKernel /\ RestSem /\ RestBuf /\ RestArb /\ RestMem /\ RestCall
    /\ RestRoute /\ RestDict /\ RestBus /\ RestTrig /\ RestLate

NextXfer == XferSchedule \/ XferRecord \/ XferPool

SpecXfer == InitXfer /\ [][NextXfer]_vars

(***************************************************************************)
(* Properties of the arrival of scheduled transfers (SpecXfer).            *)
(***************************************************************************)
\* The number of times id occurs in the sequence s.
Occurrences(s, id) == Cardinality({k \in 1..Len(s) : s[k] = id})

\* The ids with an expected-arrival entry.
Pending == {pool_expected[k].id : k \in 1..Len(pool_expected)}

\* The expected tick recorded for id.
ExpectedTick(id) ==
    LET k == CHOOSE j \in 1..Len(pool_expected) : pool_expected[j].id = id
    IN  pool_expected[k].tick

\* The contents of the input queue q of the resource r.
PeQueue(x, r, q) == Get(x.pe_in[r], q, <<>>)

restOfOq == <<kvars, svars, bvars, avars, mvars, cvars, rvars, dvars, busvars, tvars,
              fvars, bs, rw, pe>>

\* The id of the destination buffer made for the source buffer id.
OqDestId(id) == id + MaxOqBufs

\* send_bytes with the channel's capacity ignored.
oq_send_bytes_all(buffering, capacity) == buffering

\* send_bytes = min(buffering, capacity)
oq_send_bytes(buffering, capacity) == Min(buffering, capacity)

\* OutputQueue.step(sim, channel) on the queue record Q with the pool P at
\* sim.ticks = now: the queue and the pool afterwards.
oq_step(Q, P, now) ==
    IF Q.items = <<>> THEN [q |-> Q, p |-> P]
    ELSE
      LET id == Head(Q.items)
          b == Q.bufs[id]
          first == id \notin Q.scheduled
          known == id \in DOMAIN P.buffers
          P1 == IF first
                THEN pool_schedule_transfer(P, id, OqDestId(id), "m2", None, "in0")
                ELSE P
          dm1 == IF first THEN Put(Q.dest_map, id, IF known THEN OqDestId(id) ELSE 0)
                 ELSE Q.dest_map
          sch1 == IF first THEN Q.scheduled \cup {id} ELSE Q.scheduled
          b1 == IF first /\ b.bytes_received < b.size
                THEN add_received(b, b.size - b.bytes_received)
                ELSE b
          capacity == current_bandwidth(Q.chan)
          buffering == buffering_size(b1)
          b2 == add_sent(b1, oq_send_bytes(buffering, capacity))
          dest_id == Get(dm1, id, 0)
          Q1 == [Q EXCEPT !.scheduled = sch1, !.dest_map = dm1, !.bufs[id] = b1]
      IN  IF capacity <= 0 \/ buffering <= 0
          THEN [q |-> Q1, p |-> P1]
          ELSE IF b2.bytes_sent >= b2.size
               THEN [q |-> [Q1 EXCEPT !.bufs[id] = b2, !.items = Tail(@),
                                      !.scheduled = @ \ {id},
                                      !.dest_map = Drop(@, id)],
                     p |-> IF dest_id # 0
                           THEN pool_record_expected_arrival(P1, dest_id,
                                                             now + Q.chan.latency)
                           ELSE P1]
               ELSE [q |-> [Q1 EXCEPT !.bufs[id] = b2], p |-> P1]

\* A DataBuffer of some size is created, registered and enqueued.
OqEnqueue ==
    /\ oq.next <= MaxOqBufs
    /\ \E size \in 1..MaxOqSize :
          /\ StorePool(pool_register(Pool, oq.next,
                                     DataBuffer(size, None, "source", None, None), "m1"))
          /\ oq' = [oq EXCEPT !.items = Append(@, oq.next),
                              !.bufs = Put(@, oq.next, [size |-> size, bytes_received |-> 0,
                                                        bytes_sent |-> 0]),
                              !.hist = Put(@, oq.next, [sched |-> 0, pos |-> 0, done |-> FALSE,
                                                        at |-> 0]),
                              !.next = @ + 1]
    /\ UNCHANGED restOfOq

\* Channel.set_backpressure(flag)
OqSetBackpressure ==
    /\ \E flag \in BOOLEAN :
          /\ flag # oq.chan.backpressured
          /\ oq' = [oq EXCEPT !.chan.backpressured = flag]
    /\ UNCHANGED <<pvars, restOfOq>>

\* One tick: the queue is stepped with the channel, then sim.ticks += 1.
\* The history counts for the head the schedule_transfer calls and the
\* steps with positive bandwidth, and notes the tick of its last step.
OqStep ==
    /\ \E R \in {oq_step(oq, Pool, oq.ticks)} :
          LET stepped == oq.items # <<>>
              id == Head(oq.items)
              h == oq.hist[id]
              h1 == [h EXCEPT
                       !.sched = @ + (IF id \notin oq.scheduled THEN 1 ELSE 0),
                       !.pos = @ + (IF current_bandwidth(oq.chan) > 0 THEN 1 ELSE 0),
                       !.done = R.q.items # oq.items,
                       !.at = oq.ticks]
          IN  /\ StorePool(R.p)
              /\ oq' = [R.q EXCEPT !.ticks = Min(MaxOqTicks, @ + 1),
                                   !.hist = IF stepped THEN [@ EXCEPT ![id] = h1] ELSE @]
    /\ UNCHANGED restOfOq

\* An empty queue and pool, and a channel of some bandwidth and latency.
InitOq ==
    /\ \E bw \in 1..MaxChanBw, lat \in 0..1 :
          oq = [items |-> <<>>, scheduled |-> {}, dest_map |-> EmptyMap, bufs |-> EmptyMap,
                chan |-> [present |-> TRUE, bandwidth |-> bw, latency |-> lat,
                          backpressured |-> FALSE],
                ticks |-> 0, next |-> 1, hist |-> EmptyMap]
    /\ RestPool /\ RestKernel /\ RestSem /\ RestBuf /\ RestArb /\ RestMem
    /\ RestCall /\ RestRoute /\ RestDict /\ RestBus /\ RestTrig /\ RestXfer
    /\ RestBs /\ RestRw /\ RestPe

NextOq == OqEnqueue \/ OqSetBackpressure \/ OqStep

SpecOq == InitOq /\ [][NextOq]_vars

\* The queue is stepped in every tick, for ever.
FairSpecOq == SpecOq /\ WF_vars(OqStep)

(***************************************************************************)
(* Properties of the stepped OutputQueue (FairSpecOq).                     *)
(***************************************************************************)
\* The ticks of the expected-arrival entries for the buffer id.
ExpectedOf(expected, id) ==
    {expected[k].tick : k \in {j \in 1..Len(expected) : expected[j].id = id}}

\* The transfer of buffer id has completed.
OqDone(id) == id \in DOMAIN oq.hist /\ oq.hist[id].done

\* C31: the head transfer is registered through schedule_transfer exactly
\* once; a step with current_bandwidth 0 changes neither bytes_sent nor the
\* queue nor the expected arrivals; with bandwidth B a transfer of size S
\* completes after exactly ceil(S / B) steps of positive bandwidth, and the
\* completing step records the destination's expected arrival as sim.ticks
\* + channel.latency and pops the head; if the bandwidth is eventually
\* restored for good, every queued transfer eventually completes.
C31_ChunkedTransfer ==
    /\ [](\A id \in DOMAIN oq.hist :
            /\ oq.hist[id].sched <= 1
            /\ (oq.hist[id].pos > 0 \/ oq.hist[id].done) => oq.hist[id].sched = 1
            /\ oq.hist[id].done
                 => oq.hist[id].pos = CeilDiv(oq.bufs[id].size, oq.chan.bandwidth)
            /\ ~oq.hist[id].done
                 => oq.hist[id].pos < CeilDiv(oq.bufs[id].size, oq.chan.bandwidth))
    /\ [][oq.chan.backpressured /\ oq'.chan = oq.chan /\ oq'.next = oq.next =>
            /\ oq'.items = oq.items
            /\ \A id \in DOMAIN oq.bufs : oq'.bufs[id].bytes_sent = oq.bufs[id].bytes_sent
            /\ pool_expected' = pool_expected]_vars
    /\ [][oq.items # <<>> /\ oq'.hist[Head(oq.items)].done =>
            /\ oq'.items = Tail(oq.items)
            /\ ExpectedOf(pool_expected', OqDestId(Head(oq.items)))
                 = {oq.ticks + oq.chan.latency}]_vars
    /\ <>[](~oq.chan.backpressured) => []<>(\A id \in DOMAIN oq.hist : OqDone(id))

\* Two transfers have completed, the first of a buffer larger than the
\* bandwidth, in a tick later than its ceil(S / B) steps alone would need.
C31_Witness ==
    /\ OqDone(1) /\ OqDone(2)
    /\ oq.bufs[1].size > oq.chan.bandwidth
    /\ oq.hist[1].at >= CeilDiv(oq.bufs[1].size, oq.chan.bandwidth)
    /\ oq.items = <<>>

(***************************************************************************)
(* Bus (resources/bus.py): round-robin arbitration of whole messages from  *)
(* the input ports to `out` under a bandwidth in bytes per tick.          *)
(***************************************************************************)

restOfBs == <<kvars, pvars, svars, bvars, avars, mvars, cvars, rvars, dvars, busvars,
              tvars, fvars, oq, rw, pe>>

\* Bus._rr_order: the input ports in the order add_input declared them.
BsPorts == <<"in0", "in1">>
NumBsPorts == Len(BsPorts)

\* The size test of Bus.tick left out: the head moves whatever remains.
bus_fits_any(q, remaining) == q # <<>>

\* Bus.tick moves the head of a queue when its size fits the bytes remaining.
bus_fits(q, remaining) == q # <<>> /\ Head(q).size <= remaining

\* One iteration of the while loop of Bus.tick: S holds the queues, the bytes
\* remaining, the running index idx, the index start the tick began at, spins
\* and moved_any. Once idx - start has reached the number of ports, every
\* iteration counts a spin, and one that moved nothing breaks out (stop).
bus_iter(S) ==
    LET port == BsPorts[(S.idx % NumBsPorts) + 1]
        q == S.inbox[port]
        fits == bus_fits(q, S.remaining)
        wrapped == S.idx + 1 - S.start >= NumBsPorts
        moved == S.moved_any \/ fits
    IN  [inbox |-> IF fits THEN [S.inbox EXCEPT ![port] = Tail(q)] ELSE S.inbox,
         out |-> IF fits THEN Append(S.out, Head(q)) ELSE S.out,
         remaining |-> IF fits THEN S.remaining - Head(q).size ELSE S.remaining,
         idx |-> S.idx + 1,
         start |-> S.start,
         spins |-> IF wrapped THEN S.spins + 1 ELSE S.spins,
         moved_any |-> IF wrapped THEN FALSE ELSE moved,
         stop |-> wrapped /\ ~moved]

\* The while loop of Bus.tick, from the state S on; each iteration's state is
\* fixed as T before the loop goes on.
RECURSIVE bus_loop(_)
bus_loop(S) ==
    IF S.stop \/ ~(S.remaining > 0 /\ S.spins <= NumBsPorts) THEN S
    ELSE CHOOSE R \in {bus_loop(T) : T \in {bus_iter(S)}} : TRUE

\* Bus.tick on the bus B: the queues and _last_idx it leaves, and what it
\* sent to `out`.
bus_tick(B) ==
    LET start == B.last_idx % Max(1, NumBsPorts)
        S == bus_loop([inbox |-> B.inbox, out |-> <<>>, remaining |-> B.bandwidth,
                       idx |-> start, start |-> start, spins |-> 0,
                       moved_any |-> FALSE, stop |-> FALSE])
    IN  [B EXCEPT !.inbox = S.inbox, !.out = S.out, !.last_idx = S.idx]

\* A sender's message reaches the input port p.
BsSend ==
    /\ \E p \in {"in0", "in1"}, size \in 1..MaxBsSize :
          /\ Len(bs.inbox[p]) < MaxBsQueue
          /\ bs' = [bs EXCEPT !.inbox[p] = Append(@, [src |-> p, size |-> size])]
    /\ UNCHANGED restOfBs

\* Simulator.tick: the link has taken what the last tick sent, the bus ticks.
BsTick ==
    /\ \E B \in {bus_tick(bs)} : bs' = [B EXCEPT !.tk = 1 - @]
    /\ UNCHANGED restOfBs

InitBs ==
    /\ \E bw \in 1..MaxBsBw :
          bs = [bandwidth |-> bw, inbox |-> [p \in {"in0", "in1"} |-> <<>>],
                out |-> <<>>, last_idx |-> 0, tk |-> 0]
    /\ RestKernel /\ RestPool /\ RestSem /\ RestBuf /\ RestArb /\ RestMem /\ RestCall
    /\ RestRoute /\ RestDict /\ RestBus /\ RestTrig /\ RestXfer
    /\ RestOq /\ RestRw /\ RestPe

NextBs == BsSend \/ BsTick

SpecBs == InitBs /\ [][NextBs]_vars

\* The simulator goes on ticking.
FairSpecBs == SpecBs /\ WF_vars(BsTick)

\* The head of the input port p fits the bandwidth of the bus.
HeadFits(p) == bs.inbox[p] # <<>> /\ Head(bs.inbox[p]).size <= bs.bandwidth

\* The last tick forwarded a message of the input port p (its head: the bus
\* takes from the left of a queue only).
Forwarded(p) == \E k \in 1..Len(bs.out) : bs.out[k].src = p

\* The position the round-robin pass of the next tick starts at.
StartPointer(B) == B.last_idx % NumBsPorts

\* C36: a message at the head of an input whose size is <= the bandwidth is
\* forwarded to `out` after finitely many ticks, whatever arrives on the
\* other inputs, and every tick advances the round-robin start pointer by
\* exactly one position.
C36_StarvationFree ==
    /\ \A p \in {"in0", "in1"} : HeadFits(p) ~> Forwarded(p)
    /\ [][bs'.tk # bs.tk =>
            StartPointer(bs') = (StartPointer(bs) + 1) % NumBsPorts]_vars

(***************************************************************************)
(* ReadBus and WriteBus (resources/read_write_bus.py): request and response *)
(* pipelines, one of them bounded by a bandwidth in bytes per tick. The    *)
(* simulator holds a Bus, a ReadBus and a WriteBus, and the traffic of a   *)
(* run goes to one of them.                                                *)
(***************************************************************************)

restOfRw == <<kvars, pvars, svars, bvars, avars, mvars, cvars, rvars, dvars, busvars,
              tvars, fvars, oq, bs, pe>>

\* ReadBus._requesters / WriteBus._writers, in the order they were added.
RwNames == <<"a", "b">>
NumRwNames == Len(RwNames)

\* f"out_{dst}"
OutPort(dst) == "out_" \o dst

\* The capacity test of the bounded egress left out.
rw_fits_any(capacity, size) == TRUE

\* The bounded egress sends the head while the capacity left holds its size.
rw_fits(capacity, size) == capacity >= size

\* ReadBus._next_nonempty_from / WriteBus._next_nonempty_from, -1 for None.
rw_next_nonempty_from(inq, start) ==
    LET offs == {i \in 0..(NumRwNames - 1) :
                    inq[RwNames[((start + i) % NumRwNames) + 1]] # <<>>}
    IN  IF offs = {} THEN -1
        ELSE (start + (CHOOSE i \in offs : \A j \in offs : i <= j)) % NumRwNames

\* The round-robin loop that accepts requests into stage 0: what it takes,
\* in order, and the input queues it leaves.
RECURSIVE rw_accept(_, _, _)
rw_accept(inq, idx, visited) ==
    IF idx = -1 \/ visited >= NumRwNames THEN [taken |-> <<>>, inq |-> inq]
    ELSE LET port == RwNames[idx + 1]
             inq1 == [inq EXCEPT ![port] = Tail(@)]
             R == rw_accept(inq1, rw_next_nonempty_from(inq1, idx + 1), visited + 1)
         IN  [taken |-> <<Head(inq[port])>> \o R.taken, inq |-> R.inq]

\* The egress loop over the last stage under a capacity: what is sent and
\* what stays.
RECURSIVE rw_deliver(_, _)
rw_deliver(last, capacity) ==
    IF last # <<>> /\ rw_fits(capacity, Head(last).size)
    THEN LET R == rw_deliver(Tail(last), capacity - Head(last).size)
         IN  [sent |-> <<Head(last)>> \o R.sent, rest |-> R.rest]
    ELSE [sent |-> <<>>, rest |-> last]

\* One pipeline in a tick: the last stage is delivered (under the capacity
\* when bounded), every stage moves one on, behind what stayed in the last
\* stage, and the incoming messages enter stage 0.
rw_path(pipe, bounded, capacity, incoming) ==
    LET n == Len(pipe)
        D == IF bounded THEN rw_deliver(pipe[n], capacity)
             ELSE [sent |-> pipe[n], rest |-> <<>>]
        shifted == [i \in 1..n |->
                      IF i = n THEN (IF n = 1 THEN D.rest ELSE D.rest \o pipe[n - 1])
                      ELSE IF i = 1 THEN <<>> ELSE pipe[i - 1]]
    IN  [pipe |-> [shifted EXCEPT ![1] = @ \o incoming], sent |-> D.sent]

\* ReadBus.tick (responses bounded) and WriteBus.tick (requests bounded) on
\* the bus B: the bus it leaves and what it sent on the response ports and
\* on the request egress.
rw_bus_tick(B, bandwidth, respBounded) ==
    LET resp == rw_path(B.resp_pipeline, respBounded, bandwidth, B.in_mem_resp)
        acc == rw_accept(B.inq, rw_next_nonempty_from(B.inq, B.rr_idx), 0)
        req == rw_path(B.req_pipeline, ~respBounded, bandwidth, acc.taken)
    IN  [bus |-> [inq |-> acc.inq, in_mem_resp |-> <<>>,
                  req_pipeline |-> req.pipe, resp_pipeline |-> resp.pipe,
                  rr_idx |-> (B.rr_idx + 1) % NumRwNames],
         responses |-> resp.sent, requests |-> req.sent, admitted |-> acc.taken]

\* The records of the messages msgs sent on the port(s) of a bus at tick now.
Emit(msgs, bus, egress, now) ==
    [k \in 1..Len(msgs) |->
        [id |-> msgs[k].id, size |-> msgs[k].size, bus |-> bus, tick |-> now,
         port |-> IF egress = "" THEN OutPort(msgs[k].dst) ELSE egress]]

\* The places a message can be sent to.
RwTargets ==
    {<<"bus", "in0">>, <<"bus", "in1">>,
     <<"rbus", "a">>, <<"rbus", "b">>, <<"rbus", "in_mem_resp">>,
     <<"wbus", "a">>, <<"wbus", "b">>, <<"wbus", "in_mem_resp">>}

\* A link delivers a message: to an input of the Bus, a request from a
\* requester or writer (its name is the message's src), or a response of
\* the memory addressed to one of them.
RwSend ==
    /\ rw.sent < MaxRwMsgs
    /\ \E t \in RwTargets, size \in 1..MaxRwSize, dst \in {"a", "b"} :
          LET id == rw.sent + 1
              msg == [id |-> id, size |-> size,
                      dst |-> IF t[2] = "in_mem_resp" THEN dst ELSE "mem",
                      src |-> IF t[2] = "in_mem_resp" THEN "mem" ELSE t[2]]
          IN  /\ t[1] = rw.traffic
              /\ t[2] # "in_mem_resp" => dst = "a"
              /\ rw' = [rw EXCEPT
                         !.sent = id,
                         !.bus.inbox = IF t[1] = "bus"
                                       THEN [@ EXCEPT ![t[2]] = Append(@, msg)] ELSE @,
                         !.rbus = IF t[1] # "rbus" THEN @
                                  ELSE IF t[2] = "in_mem_resp"
                                  THEN [@ EXCEPT !.in_mem_resp = Append(@, msg)]
                                  ELSE [@ EXCEPT !.inq[t[2]] = Append(@, msg)],
                         !.wbus = IF t[1] # "wbus" THEN @
                                  ELSE IF t[2] = "in_mem_resp"
                                  THEN [@ EXCEPT !.in_mem_resp = Append(@, msg)]
                                  ELSE [@ EXCEPT !.inq[t[2]] = Append(@, msg)]]
    /\ UNCHANGED restOfRw

\* Simulator.tick: the three buses tick, then ticks is incremented.
RwTick ==
    /\ rw.ticks < MaxRwTicks
    /\ LET now == rw.ticks
           B == bus_tick(rw.bus)
           R == rw_bus_tick(rw.rbus, rw.bandwidth, TRUE)
           W == rw_bus_tick(rw.wbus, rw.bandwidth, FALSE)
           adm == R.admitted \o W.admitted
       IN  rw' = [rw EXCEPT
                    !.ticks = now + 1,
                    !.bus = B,
                    !.rbus = R.bus,
                    !.wbus = W.bus,
                    !.emitted = @ \o Emit(B.out, "bus", "out", now)
                                  \o Emit(R.responses, "rbus", "", now)
                                  \o Emit(R.requests, "rbus", "out_req", now)
                                  \o Emit(W.responses, "wbus", "", now)
                                  \o Emit(W.requests, "wbus", "out_mem", now),
                    !.adm = [i \in 1..MaxRwMsgs |->
                               IF \E k \in 1..Len(adm) : adm[k].id = i THEN now ELSE @[i]]]
    /\ UNCHANGED restOfRw

InitRw ==
    /\ \E bw \in 1..MaxRwBw, lat \in {0, MaxRwLat}, traffic \in {"bus", "rbus", "wbus"} :
          LET B == [inq |-> [p \in {"a", "b"} |-> <<>>], in_mem_resp |-> <<>>,
                    req_pipeline |-> [i \in 1..Max(1, lat) |-> <<>>],
                    resp_pipeline |-> [i \in 1..Max(1, lat) |-> <<>>],
                    rr_idx |-> 0]
          IN  rw = [bandwidth |-> bw, latency |-> lat, traffic |-> traffic,
                    ticks |-> 0, sent |-> 0,
                    bus |-> [bandwidth |-> bw, inbox |-> [p \in {"in0", "in1"} |-> <<>>],
                             out |-> <<>>, last_idx |-> 0, tk |-> 0],
                    rbus |-> B, wbus |-> B,
                    emitted |-> <<>>,
                    adm |-> [i \in 1..MaxRwMsgs |-> -1]]
    /\ RestKernel /\ RestPool /\ RestSem /\ RestBuf /\ RestArb /\ RestMem /\ RestCall
    /\ RestRoute /\ RestDict /\ RestBus /\ RestTrig /\ RestXfer
    /\ RestOq /\ RestBs /\ RestPe

NextRw == RwSend \/ RwTick

SpecRw == InitRw /\ [][NextRw]_vars

\* The bytes the bus b sent on the ports in ports during tick t.
RECURSIVE BytesAt(_, _, _, _)
BytesAt(em, b, ports, t) ==
    IF em = <<>> THEN 0
    ELSE (IF Head(em).bus = b /\ Head(em).port \in ports /\ Head(em).tick = t
          THEN Head(em).size ELSE 0) + BytesAt(Tail(em), b, ports, t)

\* How many of the messages of the sequence q have the id i.
CountIn(q, i) == Cardinality({k \in 1..Len(q) : q[k].id = i})

\* How many times the id i is found in a stage of the pipeline pipe.
RECURSIVE CountInPipe(_, _)
CountInPipe(pipe, i) ==
    IF pipe = <<>> THEN 0 ELSE CountIn(Head(pipe), i) + CountInPipe(Tail(pipe), i)

\* How many times the id i is found inside the ReadBus or WriteBus B.
CountInBus(B, i) ==
    CountIn(B.inq["a"], i) + CountIn(B.inq["b"], i) + CountIn(B.in_mem_resp, i)
    + CountInPipe(B.req_pipeline, i) + CountInPipe(B.resp_pipeline, i)

\* Everywhere the message i of those sent so far can be: waiting in or
\* travelling through a bus, or sent on.
Copies(i) ==
    CountIn(rw.bus.inbox["in0"], i) + CountIn(rw.bus.inbox["in1"], i)
    + CountInBus(rw.rbus, i) + CountInBus(rw.wbus, i) + CountIn(rw.emitted, i)

\* The tick that ran last.
LastTick == rw.ticks - 1

restOfPe == <<kvars, svars, bvars, avars, mvars, cvars, rvars, dvars, busvars,
              tvars, fvars, oq, bs, rw>>

\* ProcessingElement.in_names for the default in_queues = 2.
PeInputs == <<"in0", "in1">>

\* 2^n
Pow2(n) ==
    LET f[i \in 0..Max(0, n)] == IF i = 0 THEN 1 ELSE 2 * f[i - 1]
    IN  f[Max(0, n)]

\* 2^k mod m
PowMod(k, m) ==
    LET f[i \in 0..Max(0, k)] == IF i = 0 THEN 1 % m ELSE (2 * f[i - 1]) % m
    IN  f[Max(0, k)]

\* The exponent of the double a / b: the largest e with 2^e <= a / b.
RECURSIVE Exponent(_, _)
Exponent(a, b) ==
    IF a < b THEN Exponent(2 * a, b) - 1
    ELSE IF 2 * b <= a THEN Exponent(a, 2 * b) + 1
    ELSE 0

\* math.floor(T * (a / b)) as Python computes it in IEEE doubles, for
\* positive integers far below 2^31.  a / b is rounded to 53 significant
\* bits: with k = 52 - Exponent(a, b) the quotient is a * 2^k / b with
\* remainder r, rounded down when 2r < b (or 2r = b and the quotient is
\* even).  The product with T is rounded again.  When b does not divide
\* T * a the floor is that of the exact product.  When it does, with
\* N = T * a / b, a quotient that was rounded down leaves the product
\* T * r / (b * 2^k) below N, and the double it rounds to is below N when
\* that is more than half the spacing 2^(E - 52) of the doubles under N.
float_floor_mul(T, a, b) ==
    IF (T * a) % b # 0 THEN (T * a) \div b
    ELSE LET N == (T * a) \div b
             Eq == Exponent(a, b)
             k == 52 - Eq
             r == (a * PowMod(k, b)) % b
             even == (a * PowMod(k, 2 * b)) % (2 * b) = r
             down == r # 0 /\ (2 * r < b \/ (2 * r = b /\ even))
             E0 == Exponent(N, 1)
             E == IF Pow2(E0) = N THEN E0 - 1 ELSE E0
             d == E - Eq
             below == IF d >= 0 THEN 2 * T * r > b * Pow2(d)
                      ELSE 2 * T * r * Pow2(0 - d) > b
         IN  IF down /\ below THEN N - 1 ELSE N

\* max(1, math.floor(total_in * (out_n / max(1, in_n)))), for out_n >= 1
expected_output_size(total_in, ratio) ==
    Max(1, float_floor_mul(total_in, ratio[2], Max(1, ratio[1])))

\* deque.popleft() that leaves the item in the queue.
pe_peek(q) == q

\* What deque.popleft() leaves of the queue q.
pe_popleft(q) == Tail(q)

\* The test of _start_command_if_ready: a command and an item in each input.
pe_ready(E) == E.cmd # <<>> /\ \A k \in 1..Len(PeInputs) : E.inq[PeInputs[k]] # <<>>

\* _start_command_if_ready on the PE E, once the test has passed.
pe_start(E) ==
    LET command == Head(E.cmd)
        slots == [k \in 1..Len(PeInputs) |->
                    LET item == Head(E.inq[PeInputs[k]])
                    IN  [kind |-> item.kind, id |-> item.id, size |-> item.size,
                         remaining |-> item.size]]
        total_in == SumSize(slots)
    IN  [E EXCEPT !.cmd = pe_popleft(@),
                  !.inq = [n \in DOMAIN @ |-> pe_popleft(@[n])],
                  !.current_inputs = slots,
                  !.consume_rate = Max(1, command.rate),
                  !.expected_output_size = expected_output_size(total_in, E.ratio),
                  !.state = "busy",
                  !.hist = [@ EXCEPT !.started = 1 - @, !.T = total_in, !.work = 0,
                                     !.inputs = slots]]

\* The loop of tick over the slots, in their order, with the budget left.
RECURSIVE pe_consume(_, _)
pe_consume(slots, budget) ==
    IF slots = <<>> THEN <<>>
    ELSE IF budget <= 0 THEN slots
    ELSE LET rem == Head(slots).remaining
             take == IF rem <= 0 THEN 0 ELSE Min(rem, budget)
         IN  <<[Head(slots) EXCEPT !.remaining = rem - take]>>
             \o pe_consume(Tail(slots), budget - take)

\* The end of a job: the output buffer is registered, set allocated, sent
\* as a buffer_transfer and set to transit; every input that is a DataBuffer
\* is set deallocated and deleted.
RECURSIVE pe_release(_, _)
pe_release(P, slots) ==
    IF slots = <<>> THEN P
    ELSE pe_release(IF Head(slots).kind = "buffer"
                    THEN pool_delete(pool_set_state(P, Head(slots).id, "deallocated"),
                                     Head(slots).id)
                    ELSE P,
                    Tail(slots))

\* The busy branch of tick, when _simulate_backpressure has returned False.
pe_work(E, P) ==
    LET slots == pe_consume(E.current_inputs, E.consume_rate)
        done == \A k \in 1..Len(slots) : slots[k].remaining <= 0
        out_size == Max(1, E.expected_output_size)
        id == E.next_id
        P1 == pool_register(P, id, DataBuffer(out_size, "pe", "destination", None, None),
                            "pe")
        P2 == pool_set_state(pool_set_state(P1, id, "allocated"), id, "transit")
        E1 == [E EXCEPT !.current_inputs = slots, !.hist.work = @ + 1]
    IN  IF E.current_inputs = <<>> THEN [e |-> [E EXCEPT !.state = "idle"], p |-> P]
        ELSE IF ~done THEN [e |-> E1, p |-> P]
        ELSE [e |-> [E1 EXCEPT !.current_inputs = <<>>,
                               !.state = "idle",
                               !.next_id = @ + 1,
                               !.out = Append(@, [kind |-> "buffer_transfer", src |-> "pe",
                                                  dst |-> "memory", size |-> out_size,
                                                  buf_id |-> id]),
                               !.hist.finished = 1 - @],
              p |-> pe_release(P2, slots)]

\* tick, state idle: _start_command_if_ready.
pe_begin(E) == IF E.state = "idle" /\ pe_ready(E) THEN pe_start(E) ELSE E

\* tick, state backpressured: busy again when _relieve_backpressure is True.
pe_relieve(E, relieve) ==
    IF E.state = "backpressured" /\ relieve THEN [E EXCEPT !.state = "busy"] ELSE E

\* tick, state busy: backpressured when _simulate_backpressure is True, and
\* the work of the tick otherwise.
pe_busy(E, P, backpressure) ==
    IF E.state # "busy" THEN [e |-> E, p |-> P]
    ELSE IF backpressure THEN [e |-> [E EXCEPT !.state = "backpressured"], p |-> P]
    ELSE pe_work(E, P)

\* ProcessingElement.tick in pro mode, its three state tests in turn, each
\* on the PE the one before has left; relieve and backpressure are what
\* _relieve_backpressure and _simulate_backpressure return when called.
pe_tick(E, P, relieve, backpressure) ==
    CHOOSE R \in {pe_busy(E2, P, backpressure) :
                     E2 \in {pe_relieve(E1, relieve) : E1 \in {pe_begin(E)}}} : TRUE

\* The items a source puts in an input queue: a DataBuffer of the pool or a
\* Message.
PeSizes == {2, MaxPeSize}

\* A DataBuffer or a Message reaches an input queue.
PeDeliver ==
    /\ pe.sent < MaxPeItems
    /\ \E k \in 1..Len(PeInputs), kind \in {"buffer", "message"}, size \in PeSizes :
          LET id == pe.next_id
              P1 == pool_register(Pool, id, DataBuffer(size, None, "destination", "pe",
                                                       PeInputs[k]), "pe")
          IN  /\ kind = "message" => size = 2
              /\ Len(pe.inq[PeInputs[k]]) < MaxPeQueue
              /\ StorePool(IF kind = "buffer" THEN pool_set_state(P1, id, "arrived")
                           ELSE Pool)
              /\ pe' = [pe EXCEPT !.inq[PeInputs[k]] =
                                      Append(@, [kind |-> kind, size |-> size,
                                                 id |-> IF kind = "buffer" THEN id ELSE 0]),
                                  !.next_id = IF kind = "buffer" THEN @ + 1 ELSE @,
                                  !.sent = @ + 1]
    /\ UNCHANGED restOfPe

\* A command reaches the cmd queue; payload.get("rate", 64).
PeCommand ==
    /\ pe.cmds < MaxPeCmds
    /\ \E rate \in {MaxPeRate, 64} :
          pe' = [pe EXCEPT !.cmd = Append(@, [rate |-> rate]), !.cmds = @ + 1]
    /\ UNCHANGED <<restOfPe, pvars>>

\* The tick of the PE with the two random outcomes fixed.
PeStep(relieve, backpressure) ==
    /\ \E R \in {pe_tick([pe EXCEPT !.out = <<>>], Pool, relieve, backpressure)} :
          /\ pe' = [R.e EXCEPT !.tk = 1 - @]
          /\ StorePool(R.p)
    /\ UNCHANGED restOfPe

\* Simulator.tick: the link has taken what the PE sent, the PE ticks.
PeTick == \E relieve \in BOOLEAN, backpressure \in BOOLEAN : PeStep(relieve, backpressure)

\* A tick in which backpressure is relieved and not signalled anew.
PeFreeTick == PeStep(TRUE, FALSE)

InitPe ==
    /\ \E ratio \in {<<2, 1>>, <<7, 61>>} :
          pe = [state |-> "idle", ratio |-> ratio, cmd |-> <<>>,
                inq |-> [n \in {"in0", "in1"} |-> <<>>],
                current_inputs |-> <<>>, consume_rate |-> 0,
                expected_output_size |-> 0, out |-> <<>>,
                next_id |-> 1, sent |-> 0, cmds |-> 0, tk |-> 0,
                hist |-> [started |-> 0, finished |-> 0, T |-> 0, work |-> 0,
                          inputs |-> <<>>]]
    /\ RestKernel /\ RestPool /\ RestSem /\ RestBuf /\ RestArb /\ RestMem /\ RestCall
    /\ RestRoute /\ RestDict /\ RestBus /\ RestTrig /\ RestXfer
    /\ RestOq /\ RestBs /\ RestRw

NextPe == PeDeliver \/ PeCommand \/ PeTick

SpecPe == InitPe /\ [][NextPe]_vars

\* The random relief of backpressure does not fail for ever.
FairSpecPe == SpecPe /\ WF_vars(PeFreeTick)

IsPeTick == pe'.tk # pe.tk

\* The tick started a job: the PE left idle for busy.
Started == pe'.hist.started # pe.hist.started

\* The tick ended a job: the PE returned to idle.
Finished == pe'.hist.finished # pe.hist.finished

\* C39: a tick of a PE in pro mode starts a job if and only if the PE is
\* idle, its cmd queue is not empty and every input queue holds an item; it
\* then pops one command and one item of each input, and in every other
\* tick cmd and the input queues are left as they are.
C39_StartIffReady ==
    [][IsPeTick =>
         IF pe.state = "idle" /\ pe.cmd # <<>> /\ pe.inq["in0"] # <<>> /\ pe.inq["in1"] # <<>>
         THEN /\ Started
              /\ pe'.cmd = Tail(pe.cmd)
              /\ pe'.inq = [n \in {"in0", "in1"} |-> Tail(pe.inq[n])]
         ELSE /\ ~Started
              /\ pe'.cmd = pe.cmd
              /\ pe'.inq = pe.inq]_vars

\* A job is under way with a second command and further items waiting,
\* which the busy PE has left in their queues.
C39_Witness ==
    /\ pe.state \in {"busy", "backpressured"}
    /\ pe.hist.work >= 1
    /\ pe.cmd # <<>> /\ pe.inq["in0"] # <<>> /\ pe.inq["in1"] # <<>>

\* The slots of the job under way are consumed in their order: a slot is
\* untouched while one before it has bytes left.
InDeclarationOrder ==
    \A k \in 1..Len(pe.current_inputs), j \in 1..Len(pe.current_inputs) :
        (k < j /\ pe.current_inputs[k].remaining > 0) =>
            pe.current_inputs[j].remaining = pe.current_inputs[j].size

\* C40: a job of total input T and rate r ends, the PE back in idle, in its
\* ceil(T / r)-th busy tick that was not backpressured and not before, its
\* slots consumed in declaration order; the tick that ends it sends exactly
\* one buffer_transfer, of size max(1, floor(T * out_n / in_n)), and leaves
\* every input DataBuffer of the job deleted from the pool; no other tick
\* sends anything; and with fair relief of backpressure every job ends.
C40_JobCompletes ==
    /\ [][(IsPeTick /\ Finished) =>
            /\ pe'.state = "idle"
            /\ pe'.hist.work = CeilDiv(pe'.hist.T, pe'.consume_rate)
            /\ Len(pe'.out) = 1
            /\ pe'.out[1].kind = "buffer_transfer"
            /\ pe'.out[1].size = Max(1, (pe'.hist.T * pe.ratio[2]) \div pe.ratio[1])
            /\ \A k \in 1..Len(pe'.hist.inputs) :
                  pe'.hist.inputs[k].kind = "buffer" =>
                     /\ pe'.hist.inputs[k].id \notin DOMAIN pool_buffers'
                     /\ pe'.hist.inputs[k].id \in pool_deleted']_vars
    /\ [][(IsPeTick /\ ~Finished) => pe'.out = <<>>]_vars
    /\ [](InDeclarationOrder
          /\ (pe.state # "idle" =>
                 pe.hist.work < CeilDiv(pe.hist.T, pe.consume_rate)))
    /\ (pe.state # "idle") ~> (pe.state = "idle")


====
